---- MODULE Spec2Model ----
(***************************************************************************)
(* Model of the ordered pipeline driver of gitfilter's export parser       *)
(* (gitfilter/src/export_parser/mod.rs): one reader thread dispatching raw *)
(* records round-robin to n_parsing_threads builder threads, which push    *)
(* (index, Result) pairs on one shared channel that the calling thread     *)
(* reassembles in index order with a min-heap before calling cb.           *)
(***************************************************************************)
EXTENDS Integers, Sequences, FiniteSets, TLC

\* ---- bounds -------------------------------------------------------------
MaxRecords == 3
MaxThreads == 3
MaxCpus == 12
MaxMerges == 3

\* ---- state --------------------------------------------------------------
VARIABLES
    thread_arg,         \* the caller's n_parsing_threads: Option<usize>
    cpu_count,          \* num_cpus::get()
    export_obj,         \* the StructuredExportObject given to write_to_stream
    sink,               \* bytes written to write_to_stream's stream
    panic_mark,         \* building the record with this mark panics (0: none)
    stream,             \* raw records the tokenizer emits, in emission order
    tokenizer_fails,    \* the tokenizer ends with an error after these records
    n_parsing_threads,  \* resolved number of builder threads
    cb_fail_mark,       \* cb returns Err on the object with this mark (0: never)
    counter,            \* reader closure: next sequence index
    reader,             \* reader thread: "run" | "done" | "panic"
    filter_res,         \* value the reader thread returns
    parse_rx,           \* per worker: inbound queue of (counter, received)
    worker,             \* per worker: "recv" | "build" | "exit" | "panic"
    held,               \* per worker: the (counter, received) pair taken
    rx,                 \* shared outbound queue of (counter, parsed)
    rx_alive,           \* the outbound receiver has not been dropped
    main,               \* calling thread: "loop" | "join" | "returned"
    expected,           \* next index to hand to cb
    wait_heap,          \* WaitObj's, kept in pop order (smallest index first)
    delivered,          \* objects cb has been invoked with, in call order
    cb_site,            \* where cb was last called: "none" | "recv" | "drain"
    result,             \* value the driver returns
    mgt_opts,           \* the Mgt given to validate_input_and_run
    cmd,                \* the MgtCommandSplit handed to a run function
    ran,                \* run function reached, "died", or "none"
    git_effects,        \* filter runs and git commands executed, in order
    printed,            \* lines printed by the orchestration helpers
    helper_res,         \* one entry per helper call: the helper and its result
    cwd,                \* the current directory of the process
    repo_lines,         \* the lines given to parse_repo_file_from_toml_lines
    repo_pc,            \* its position: "idle" | "scan" | "group" | "done"
    line_ind,           \* first loop: index of the next line to look at
    last_line_was_break,
    segment_indices,    \* line indices at which a segment ends
    seg_pos,            \* second loop: position of i in segment_indices
    current_index,      \* second loop: index of the first line not yet grouped
    toml_segments       \* the segments built so far

vars == <<thread_arg, cpu_count, export_obj, sink, panic_mark,
          stream, tokenizer_fails, n_parsing_threads, cb_fail_mark, counter,
          reader, filter_res, parse_rx, worker, held, rx, rx_alive, main,
          expected, wait_heap, delivered, cb_site, result,
          mgt_opts, cmd, ran, git_effects, printed, helper_res, cwd,
          repo_lines, repo_pc, line_ind, last_line_was_break, segment_indices,
          seg_pos, current_index, toml_segments>>

\* The state of parse_repo_file_from_toml_lines.
repofile == <<repo_lines, repo_pc, line_ind, last_line_was_break, segment_indices,
              seg_pos, current_index, toml_segments>>

\* The state of the command line and of the orchestration helpers.
orchestration == <<mgt_opts, cmd, ran, git_effects, printed, helper_res, cwd>>

\* What a run of the driver never changes.
inputs == <<thread_arg, cpu_count, export_obj, sink, panic_mark,
            stream, tokenizer_fails, n_parsing_threads, cb_fail_mark,
            orchestration, repofile>>

\* ---- values -------------------------------------------------------------
Pending == [tag |-> "Pending", err |-> "none", at |-> 0]
Ok == [tag |-> "Ok", err |-> "none", at |-> 0]
Err(kind, at) == [tag |-> "Err", err |-> kind, at |-> at]

Some(v) == [some |-> TRUE, val |-> v]
NoneInt == [some |-> FALSE, val |-> 0]
NoneStr == [some |-> FALSE, val |-> <<>>]

NoObj == [object_type |-> "None", mark |-> 0]
NoItem == [index |-> 0 - 1, raw |-> [shape |-> "none", mark |-> 0]]

\* Variant: one spare CPU still gets no parser thread of its own.
ResolveThreads_OffByOne(arg, cpus) ==
    IF arg.some THEN arg.val
    ELSE IF cpus - 2 < 0 THEN 1 ELSE cpus - 2

\* let n_parsing_threads = match n_parsing_threads { Some(n) => n, None => .. }
ResolveThreads(arg, cpus) ==
    IF arg.some THEN arg.val
    ELSE LET spawn_parser_threads == cpus - 2
         IN  IF spawn_parser_threads <= 0 THEN 1 ELSE spawn_parser_threads

Workers == 0 .. (n_parsing_threads - 1)

\* The worker's thread has ended: its parse_rx and its tx clone are dropped.
Gone(w) == worker[w] \in {"exit", "panic"}

\* The streams of length len: the exporter numbers its records with marks
\* 1, 2, 3, ... in emission order.
StreamsOfLen(len) ==
    {s \in [1 .. len -> [shape : {"commit", "blob", "garbled"}, mark : 1 .. len]] :
        \A i \in 1 .. len : s[i].mark = i}

\* parse_into_structured_object: a raw record becomes a Commit or a Blob, or
\* fails with a ParseError.
parse_into_structured_object(raw) ==
    IF raw.shape = "commit"
    THEN [ok |-> TRUE, obj |-> [object_type |-> "Commit", mark |-> raw.mark]]
    ELSE IF raw.shape = "blob"
    THEN [ok |-> TRUE, obj |-> [object_type |-> "Blob", mark |-> raw.mark]]
    ELSE [ok |-> FALSE, obj |-> NoObj]

\* The caller's callback: Ok or Err, decided by the object it is given.
cb(obj) == obj.mark # cb_fail_mark

\* ---- reader thread ------------------------------------------------------
\* Variant: the round-robin is off by one worker.
thread_index_Shifted(c) == (c + 1) % n_parsing_threads

\* thread_index = counter % n_parsing_threads
thread_index(c) == c % n_parsing_threads

\* Variant: a bounded channel of capacity 1 (sync_channel(1)).
SendBlocks_Bounded(w) == Len(parse_rx[w]) >= 1

\* mpsc::channel() is unbounded: parse_tx.send never waits for room.
SendBlocks(w) == FALSE

\* Variant: a send to a worker that has exited is not noticed.
SendAccepted_Always(w) == TRUE

\* parse_tx.send((counter, x)) fails only when the receiving worker is gone.
SendAccepted(w) == ~Gone(w)

\* parse_git_filter_export_with_callback stops at the first Err of its
\* closure and returns an error for it; c is the failing record's index.
TokenizerAbort(c) == Err("send", c)

\* parse_git_filter_export_with_callback at the end of its input, after c
\* records: Ok, or the tokenizer's own error.
TokenizerEnd(c) == IF tokenizer_fails THEN Err("tokenize", c) ELSE Ok

\* One call of the reader's closure on the next raw record.
ReaderDispatch ==
    /\ reader = "run"
    /\ counter < Len(stream)
    /\ IF n_parsing_threads = 0
       THEN \* counter % 0 panics; the closure's senders are dropped
            /\ reader' = "panic"
            /\ UNCHANGED <<counter, filter_res, parse_rx>>
       ELSE LET w == thread_index(counter)
                item == [index |-> counter, raw |-> stream[counter + 1]]
            IN  /\ ~SendBlocks(w)
                /\ counter' = counter + 1
                /\ IF SendAccepted(w)
                   THEN /\ parse_rx' = [parse_rx EXCEPT ![w] = Append(@, item)]
                        /\ UNCHANGED <<reader, filter_res>>
                   ELSE \* the tokenizer stops on the closure's Err
                        /\ reader' = "done"
                        /\ filter_res' = TokenizerAbort(counter)
                        /\ UNCHANGED parse_rx
    /\ UNCHANGED <<inputs, worker, held, rx, rx_alive, main, expected,
                   wait_heap, delivered, cb_site, result>>

\* The tokenizer reaches the end of its input (or its own error): the reader
\* thread returns and its closure, with every parse_tx, is dropped.
ReaderFinish ==
    /\ reader = "run"
    /\ counter = Len(stream)
    /\ reader' = "done"
    /\ filter_res' = TokenizerEnd(counter)
    /\ UNCHANGED <<inputs, counter, parse_rx, worker, held, rx, rx_alive, main,
                   expected, wait_heap, delivered, cb_site, result>>

\* ---- builder threads ----------------------------------------------------
\* Variant: the worker takes the newest pair of its queue, not the oldest.
WorkerTake_Newest(w) ==
    /\ worker[w] = "recv"
    /\ parse_rx[w] # <<>>
    /\ held' = [held EXCEPT ![w] = parse_rx[w][Len(parse_rx[w])]]
    /\ parse_rx' = [parse_rx EXCEPT ![w] = SubSeq(@, 1, Len(@) - 1)]
    /\ worker' = [worker EXCEPT ![w] = "build"]
    /\ UNCHANGED <<inputs, counter, reader, filter_res, rx, rx_alive, main,
                   expected, wait_heap, delivered, cb_site, result>>

\* for (counter, received) in parse_rx: take the next pair.
WorkerTake(w) ==
    /\ worker[w] = "recv"
    /\ parse_rx[w] # <<>>
    /\ held' = [held EXCEPT ![w] = Head(parse_rx[w])]
    /\ parse_rx' = [parse_rx EXCEPT ![w] = Tail(@)]
    /\ worker' = [worker EXCEPT ![w] = "build"]
    /\ UNCHANGED <<inputs, counter, reader, filter_res, rx, rx_alive, main,
                   expected, wait_heap, delivered, cb_site, result>>

\* Variant: the result is tagged with the number of the next record.
Built_NextIndex(item) ==
    [index |-> item.index + 1, parsed |-> parse_into_structured_object(item.raw)]

\* The pair a worker sends for the pair it took.
Built(item) == [index |-> item.index, parsed |-> parse_into_structured_object(item.raw)]

\* parse_into_structured_object panics on this raw record.
BuildPanics(raw) == raw.mark = panic_mark

\* Build the object and send (counter, parsed); a failed send ends the
\* thread, and so does a panic of the build.
WorkerEmit(w) ==
    /\ worker[w] = "build"
    /\ held' = [held EXCEPT ![w] = NoItem]
    /\ IF BuildPanics(held[w].raw)
       THEN /\ worker' = [worker EXCEPT ![w] = "panic"]
            /\ parse_rx' = [parse_rx EXCEPT ![w] = <<>>]
            /\ UNCHANGED rx
       ELSE IF rx_alive
       THEN /\ rx' = Append(rx, Built(held[w]))
            /\ worker' = [worker EXCEPT ![w] = "recv"]
            /\ UNCHANGED parse_rx
       ELSE /\ worker' = [worker EXCEPT ![w] = "exit"]
            /\ parse_rx' = [parse_rx EXCEPT ![w] = <<>>]
            /\ UNCHANGED rx
    /\ UNCHANGED <<inputs, counter, reader, filter_res, rx_alive, main,
                   expected, wait_heap, delivered, cb_site, result>>

\* The inbound queue is empty and every parse_tx is gone: the for loop ends.
WorkerExit(w) ==
    /\ worker[w] = "recv"
    /\ parse_rx[w] = <<>>
    /\ reader # "run"
    /\ worker' = [worker EXCEPT ![w] = "exit"]
    /\ UNCHANGED <<inputs, counter, reader, filter_res, parse_rx, held, rx,
                   rx_alive, main, expected, wait_heap, delivered, cb_site, result>>

\* ---- calling thread: reassembly ----------------------------------------
\* Variant: the driver keeps its own tx alive (no drop(tx)).
OutboundSenders_WithTx == {w \in Workers : ~Gone(w)} \cup {0 - 1}

\* The outbound senders still alive: one clone per running worker.  The
\* driver's own tx was dropped before the reader was spawned.
OutboundSenders == {w \in Workers : ~Gone(w)}

\* Variant: the heap is used without Reverse (a max-heap).
WaitObjLess_NoReverse(a, b) == a.index > b.index

\* impl Ord for WaitObj: by index alone.
WaitObjLess(a, b) == a.index < b.index

\* Variant: an object that arrives early is thrown away instead of buffered.
HeapPush_Drop(heap, wait_obj) == heap

\* wait_heap.push(Reverse(wait_obj)): the heap is kept in pop order.
RECURSIVE HeapPush(_, _)
HeapPush(heap, wait_obj) ==
    IF heap = <<>> THEN <<wait_obj>>
    ELSE IF WaitObjLess(wait_obj, Head(heap)) THEN <<wait_obj>> \o heap
    ELSE <<Head(heap)>> \o HeapPush(Tail(heap), wait_obj)

\* Variant: objects are handed on in arrival order.
IsExpected_Always(index, exp) == TRUE

\* Variant: the received index is compared with the index after expected.
IsExpected_OffByOne(index, exp) == index = exp + 1

\* received.0 == expected / wait_obj.index == expected
IsExpected(index, exp) == index = exp

\* Variant: the callback's Err is ignored.
CallCb_IgnoreErr(st, site, index, obj) ==
    [st EXCEPT !.delivered = Append(@, obj), !.cb_site = site, !.expected = @ + 1]

\* cb(obj).map_err(..)?; expected += 1 -- on the reassembly state
\* st = [expected, wait_heap, delivered, cb_site, result].
CallCb(st, site, index, obj) ==
    LET called == [st EXCEPT !.delivered = Append(@, obj), !.cb_site = site]
    IN  IF cb(obj)
        THEN [called EXCEPT !.expected = @ + 1]
        ELSE [called EXCEPT !.result = Err("callback", index)]

\* Variant: `if let` for `while let`: at most one object leaves the heap.
DrainHeap_Once(st) ==
    IF st.result # Pending \/ st.wait_heap = <<>> THEN st
    ELSE LET wait_obj == Head(st.wait_heap)
             popped == [st EXCEPT !.wait_heap = Tail(@)]
         IN  IF IsExpected(wait_obj.index, st.expected)
             THEN CallCb(popped, "drain", wait_obj.index, wait_obj.obj)
             ELSE st

\* while let Some(wait_obj) = wait_heap.pop() { .. }
RECURSIVE DrainHeap(_)
DrainHeap(st) ==
    IF st.result # Pending \/ st.wait_heap = <<>> THEN st
    ELSE LET wait_obj == Head(st.wait_heap)
             popped == [st EXCEPT !.wait_heap = Tail(@)]
         IN  IF IsExpected(wait_obj.index, st.expected)
             THEN DrainHeap(CallCb(popped, "drain", wait_obj.index, wait_obj.obj))
             ELSE [popped EXCEPT !.wait_heap = HeapPush(@, wait_obj)]

\* Variant: a failed build is passed on as a default object (unwrap_or_default).
ParseErrorAborts_Default(st, received) == st

\* let received_obj = received.1?;
ParseErrorAborts(st, received) ==
    IF received.parsed.ok THEN st ELSE [st EXCEPT !.result = Err("parse", received.index)]

\* One pass of the body of `for received in rx`.
Reassemble(st, received) ==
    LET checked == ParseErrorAborts(st, received)
        wait_obj == [index |-> received.index, obj |-> received.parsed.obj]
    IN  IF checked.result # Pending THEN checked
        ELSE DrainHeap(IF IsExpected(received.index, st.expected)
                       THEN CallCb(st, "recv", received.index, received.parsed.obj)
                       ELSE [st EXCEPT !.wait_heap = HeapPush(@, wait_obj)])

\* The calling thread takes one (counter, parsed) pair off rx and runs the
\* loop body on it; a `?` in the body returns from the driver, dropping rx.
MainRecv ==
    /\ main = "loop"
    /\ rx # <<>>
    /\ LET st == Reassemble([expected |-> expected, wait_heap |-> wait_heap,
                             delivered |-> delivered, cb_site |-> cb_site,
                             result |-> result], Head(rx))
       IN  /\ expected' = st.expected
           /\ wait_heap' = st.wait_heap
           /\ delivered' = st.delivered
           /\ cb_site' = st.cb_site
           /\ result' = st.result
           /\ IF st.result = Pending
              THEN /\ rx' = Tail(rx)
                   /\ UNCHANGED <<main, rx_alive>>
              ELSE /\ main' = "returned"
                   /\ rx_alive' = FALSE
                   /\ rx' = <<>>
    /\ UNCHANGED <<inputs, counter, reader, filter_res, parse_rx, worker, held>>

\* rx is empty and every sender is gone: the for loop ends.
MainLoopEnd ==
    /\ main = "loop"
    /\ rx = <<>>
    /\ OutboundSenders = {}
    /\ main' = "join"
    /\ rx_alive' = FALSE
    /\ UNCHANGED <<inputs, counter, reader, filter_res, parse_rx, worker, held,
                   rx, expected, wait_heap, delivered, cb_site, result>>

\* Variant: the reader's result is thrown away.
JoinResult_Discarded == IF reader = "panic" THEN Err("join", 0) ELSE Ok

\* Variant: a panic of the reader thread is taken for success.
JoinResult_PanicIgnored == IF reader = "panic" THEN Ok ELSE filter_res

\* match thread_handle.join()
JoinResult == IF reader = "panic" THEN Err("join", 0) ELSE filter_res

MainJoin ==
    /\ main = "join"
    /\ reader # "run"
    /\ result' = JoinResult
    /\ main' = "returned"
    /\ UNCHANGED <<inputs, counter, reader, filter_res, parse_rx, worker, held,
                   rx, rx_alive, expected, wait_heap, delivered, cb_site>>

\* ---- sequential entry point -------------------------------------------
\* parse_git_filter_export: the tokenizer calls the closure on each raw record
\* in turn; the closure builds the object and hands it to cb.  run is
\* [delivered, result]; s is what is left of the stream; i is the index of
\* its first record.
RECURSIVE parse_git_filter_export(_, _, _)
parse_git_filter_export(s, i, run) ==
    IF s = <<>>
    THEN [run EXCEPT !.result = TokenizerEnd(i)]
    ELSE LET parsed == parse_into_structured_object(Head(s))
         IN  IF ~parsed.ok
             THEN [run EXCEPT !.result = Err("parse", i)]
             ELSE IF cb(parsed.obj)
             THEN parse_git_filter_export(Tail(s), i + 1,
                                          [run EXCEPT !.delivered = Append(@, parsed.obj)])
             ELSE [run EXCEPT !.delivered = Append(@, parsed.obj),
                              !.result = Err("callback", i)]

Sequential == parse_git_filter_export(stream, 0, [delivered |-> <<>>, result |-> Pending])

\* ---- specification ------------------------------------------------------
\* The driver's state once the workers and the reader are spawned.
Started ==
    /\ counter = 0
    /\ reader = "run"
    /\ filter_res = Pending
    /\ parse_rx = [w \in Workers |-> <<>>]
    /\ worker = [w \in Workers |-> "recv"]
    /\ held = [w \in Workers |-> NoItem]
    /\ rx = <<>>
    /\ rx_alive = TRUE
    /\ main = "loop"
    /\ expected = 0
    /\ wait_heap = <<>>
    /\ delivered = <<>>
    /\ cb_site = "none"
    /\ result = Pending

\* No object is being serialized.
NoExport == [has_feature_done |-> FALSE, object_type |-> "None"]

SerializerIdle == export_obj = NoExport /\ sink = <<>>

NoCmd == [name |-> "None"]

NoMgt == [dry_run |-> FALSE, verbose |-> FALSE, command |-> NoCmd]

\* No repo file is being parsed.
RepoFileIdle ==
    /\ repo_lines = <<>>
    /\ repo_pc = "idle"
    /\ line_ind = 0
    /\ last_line_was_break = FALSE
    /\ segment_indices = <<>>
    /\ seg_pos = 1
    /\ current_index = 0
    /\ toml_segments = <<>>

\* No command line was given and no helper was called.
CliIdle ==
    /\ mgt_opts = NoMgt
    /\ cmd = NoCmd
    /\ ran = "none"
    /\ git_effects = <<>>
    /\ printed = <<>>
    /\ helper_res = <<>>
    /\ cwd = "/repo/sub"

\* The driver called with Some(n) on a stream whose records all build
\* without panicking.
Init ==
    /\ \E n \in 0 .. MaxThreads : thread_arg = Some(n)
    /\ cpu_count = 1
    /\ n_parsing_threads = ResolveThreads(thread_arg, cpu_count)
    /\ SerializerIdle
    /\ CliIdle
    /\ RepoFileIdle
    /\ panic_mark = 0
    /\ \E len \in 0 .. MaxRecords : stream \in StreamsOfLen(len)
    /\ tokenizer_fails \in BOOLEAN
    /\ cb_fail_mark \in 0 .. Len(stream)
    /\ Started

Next ==
    \/ ReaderDispatch
    \/ ReaderFinish
    \/ \E w \in Workers : WorkerTake(w)
    \/ \E w \in Workers : WorkerEmit(w)
    \/ \E w \in Workers : WorkerExit(w)
    \/ MainRecv
    \/ MainLoopEnd
    \/ MainJoin

Spec == Init /\ [][Next]_vars

\* Every thread that can take a step eventually does: the reader, each
\* builder and the calling thread are operating-system threads.
ReaderStep == ReaderDispatch \/ ReaderFinish

WorkerStep(w) == w \in Workers /\ (WorkerTake(w) \/ WorkerEmit(w) \/ WorkerExit(w))

MainStep == MainRecv \/ MainLoopEnd \/ MainJoin

FairSpec ==
    /\ Spec
    /\ WF_vars(ReaderStep)
    /\ \A w \in 0 .. (MaxThreads - 1) : WF_vars(WorkerStep(w))
    /\ WF_vars(MainStep)

\* The driver on a stream with one record whose build panics.
PanicInit ==
    /\ \E n \in 0 .. MaxThreads : thread_arg = Some(n)
    /\ cpu_count = 1
    /\ n_parsing_threads = ResolveThreads(thread_arg, cpu_count)
    /\ SerializerIdle
    /\ CliIdle
    /\ RepoFileIdle
    /\ \E len \in 1 .. MaxRecords : stream \in StreamsOfLen(len)
    /\ panic_mark \in 1 .. Len(stream)
    /\ tokenizer_fails \in BOOLEAN
    /\ cb_fail_mark = 0
    /\ Started

PanicSpec == PanicInit /\ [][Next]_vars

\* ---- sequential entry point, step by step --------------------------------
\* parse_git_filter_export called: no thread, no queue; the tokenizer is at
\* the start of the stream.
SeqInit ==
    /\ thread_arg = NoneInt
    /\ cpu_count = 1
    /\ n_parsing_threads = 0
    /\ SerializerIdle
    /\ CliIdle
    /\ RepoFileIdle
    /\ panic_mark = 0
    /\ \E len \in 0 .. MaxRecords : stream \in StreamsOfLen(len)
    /\ tokenizer_fails \in BOOLEAN
    /\ cb_fail_mark \in 0 .. Len(stream)
    /\ counter = 0
    /\ reader = "none"
    /\ filter_res = Pending
    /\ parse_rx = <<>>
    /\ worker = <<>>
    /\ held = <<>>
    /\ rx = <<>>
    /\ rx_alive = FALSE
    /\ main = "seq"
    /\ expected = 0
    /\ wait_heap = <<>>
    /\ delivered = <<>>
    /\ cb_site = "none"
    /\ result = Pending

\* Variant: a failed build is handed to cb as a default object.
SeqHandsToCb_Always(parsed) == TRUE

\* match parse_into_structured_object(unparsed) { Ok(parsed) => cb(parsed), .. }
SeqHandsToCb(parsed) == parsed.ok

\* The closure's return value for the record with index i.
SeqClosureResult(parsed, i) ==
    IF ~SeqHandsToCb(parsed) THEN Err("parse", i)
    ELSE IF cb(parsed.obj) THEN Ok
    ELSE Err("callback", i)

\* parse_git_filter_export_with_callback goes on to the next raw record only
\* after an Ok of its closure.
TokenizerStopsOn(res) == res # Ok

\* The tokenizer emits the next raw record and calls the closure on it.
SeqRecord ==
    /\ main = "seq"
    /\ counter < Len(stream)
    /\ LET parsed == parse_into_structured_object(stream[counter + 1])
           res == SeqClosureResult(parsed, counter)
       IN  /\ delivered' = IF SeqHandsToCb(parsed) THEN Append(delivered, parsed.obj)
                                                   ELSE delivered
           /\ cb_site' = IF SeqHandsToCb(parsed) THEN "seq" ELSE cb_site
           /\ counter' = counter + 1
           /\ IF TokenizerStopsOn(res)
              THEN main' = "returned" /\ result' = res
              ELSE UNCHANGED <<main, result>>
    /\ UNCHANGED <<inputs, reader, filter_res, parse_rx, worker, held, rx,
                   rx_alive, expected, wait_heap>>

\* The tokenizer is at the end of its input.
SeqEnd ==
    /\ main = "seq"
    /\ counter = Len(stream)
    /\ main' = "returned"
    /\ result' = TokenizerEnd(counter)
    /\ UNCHANGED <<inputs, counter, reader, filter_res, parse_rx, worker, held,
                   rx, rx_alive, expected, wait_heap, delivered, cb_site>>

SeqSpec == SeqInit /\ [][SeqRecord \/ SeqEnd]_vars

\* ---- choosing the number of parser threads ------------------------------
Unresolved == 0 - 1

\* The driver is entered: nothing is resolved or spawned yet.
ThreadsInit ==
    /\ thread_arg \in {NoneInt} \cup {Some(n) : n \in 0 .. MaxThreads}
    /\ cpu_count \in 1 .. MaxCpus
    /\ n_parsing_threads = Unresolved
    /\ SerializerIdle
    /\ CliIdle
    /\ RepoFileIdle
    /\ panic_mark = 0
    /\ stream = <<>>
    /\ tokenizer_fails = FALSE
    /\ cb_fail_mark = 0
    /\ Started

\* Resolve n_parsing_threads and spawn that many parser threads.
SpawnWorkers ==
    /\ n_parsing_threads = Unresolved
    /\ n_parsing_threads' = ResolveThreads(thread_arg, cpu_count)
    /\ parse_rx' = [w \in 0 .. (n_parsing_threads' - 1) |-> <<>>]
    /\ worker' = [w \in 0 .. (n_parsing_threads' - 1) |-> "recv"]
    /\ held' = [w \in 0 .. (n_parsing_threads' - 1) |-> NoItem]
    /\ UNCHANGED <<thread_arg, cpu_count, export_obj, sink, panic_mark, stream,
                   tokenizer_fails, cb_fail_mark, counter, reader, filter_res,
                   rx, rx_alive, main, expected, wait_heap, delivered, cb_site,
                   result, orchestration, repofile>>

ThreadsSpec == ThreadsInit /\ [][SpawnWorkers]_vars

\* ---- serializer -----------------------------------------------------------
\* Byte strings are sequences of one-character strings.
NL == "\n"

B_feature_done == <<"f", "e", "a", "t", "u", "r", "e", " ", "d", "o", "n", "e", NL>>
B_reset == <<"r", "e", "s", "e", "t", " ">>
B_from == <<"f", "r", "o", "m", " ">>
B_commit == <<"c", "o", "m", "m", "i", "t", " ">>
B_mark == <<"m", "a", "r", "k", " ", ":">>
B_original_oid == <<"o", "r", "i", "g", "i", "n", "a", "l", "-", "o", "i", "d", " ">>
B_author == <<"a", "u", "t", "h", "o", "r", " ">>
B_committer == <<"c", "o", "m", "m", "i", "t", "t", "e", "r", " ">>
B_data == <<"d", "a", "t", "a", " ">>
B_from_mark == <<"f", "r", "o", "m", " ", ":">>
B_merge_mark == <<"m", "e", "r", "g", "e", " ", ":">>
B_blob == <<"b", "l", "o", "b", NL>>
B_deleteall == <<"d", "e", "l", "e", "t", "e", "a", "l", "l">>

Digits == <<"0", "1", "2", "3", "4", "5", "6", "7", "8", "9">>

\* usize::to_string: decimal, no sign, no leading zero.
RECURSIVE to_string(_)
to_string(n) ==
    IF n < 10 THEN <<Digits[n + 1]>>
    ELSE to_string(n \div 10) \o <<Digits[(n % 10) + 1]>>

\* Variant: the separating space is written even without a name.
write_person_info_AlwaysSpace(write_data, person, is_author) ==
    write_data
        \o (IF is_author THEN B_author ELSE B_committer)
        \o (IF person.name.some THEN person.name.val ELSE <<>>) \o <<" ">>
        \o <<"<">> \o person.email \o <<">", " ">>
        \o person.timestr \o <<NL>>

\* write_person_info appends one author or committer line to write_data.
write_person_info(write_data, person, is_author) ==
    write_data
        \o (IF is_author THEN B_author ELSE B_committer)
        \o (IF person.name.some THEN person.name.val \o <<" ">> ELSE <<>>)
        \o <<"<">> \o person.email \o <<">", " ">>
        \o person.timestr \o <<NL>>

\* CommitObject::get_author
get_author(commit_obj) == commit_obj.author

\* Variant: without an author the committer is written as the author.
WriteAuthor_CommitterFallback(write_data, commit_obj) ==
    IF get_author(commit_obj).some
    THEN write_person_info(write_data, get_author(commit_obj).val, TRUE)
    ELSE write_person_info(write_data, commit_obj.committer, TRUE)

\* if let Some(author) = commit_obj.get_author() { write_person_info(.., true) }
WriteAuthor(write_data, commit_obj) ==
    IF get_author(commit_obj).some
    THEN write_person_info(write_data, get_author(commit_obj).val, TRUE)
    ELSE write_data

\* Variant: the length token captured from the input is written back.
CommitDataToken_Declared(o) == o.data_size

\* data_len = commit_message.as_bytes().len(), written with to_string
CommitDataToken(o) == to_string(Len(o.commit.commit_message))

\* Variant: every parent is written as a 'from'.
MergeKeyword_AlwaysFrom(first_merge) == B_from_mark

\* first merge should be a 'from'
MergeKeyword(first_merge) == IF first_merge THEN B_from_mark ELSE B_merge_mark

\* for merge_info in commit_obj.merges { .. }
RECURSIVE WriteMerges(_, _, _)
WriteMerges(write_data, merges, first_merge) ==
    IF merges = <<>> THEN write_data
    ELSE WriteMerges(write_data \o MergeKeyword(first_merge)
                                \o to_string(Head(merges)) \o <<NL>>,
                     Tail(merges), FALSE)

\* match fileop { .. }: the bytes of one file operation, without its newline.
WriteFileOp(fileop) ==
    IF fileop.op = "FileModify"
    THEN <<"M", " ">> \o fileop.a \o <<" ">> \o fileop.b \o <<" ">> \o fileop.c
    ELSE IF fileop.op = "FileDelete" THEN <<"D", " ">> \o fileop.a
    ELSE IF fileop.op = "FileCopy" THEN <<"C", " ">> \o fileop.a \o <<" ">> \o fileop.b
    ELSE IF fileop.op = "FileRename" THEN <<"R", " ">> \o fileop.a \o <<" ">> \o fileop.b
    ELSE IF fileop.op = "FileDeleteAll" THEN B_deleteall
    ELSE <<"N", " ">> \o fileop.a \o <<" ">> \o fileop.b

\* for fileop in commit_obj.fileops { ..; write_data.push(b'\n') }
RECURSIVE WriteFileOps(_, _)
WriteFileOps(write_data, fileops) ==
    IF fileops = <<>> THEN write_data
    ELSE WriteFileOps(write_data \o WriteFileOp(Head(fileops)) \o <<NL>>, Tail(fileops))

\* The three ifs on has_reset and has_reset_from.
WriteReset(write_data, o) ==
    LET w1 == IF o.has_reset.some
              THEN write_data \o B_reset \o o.has_reset.val \o <<NL>>
              ELSE write_data
        w2 == IF o.has_reset_from.some
              THEN w1 \o B_from \o o.has_reset_from.val \o <<NL>>
              ELSE w1
    IN  IF o.has_reset.some THEN w2 \o <<NL>> ELSE w2

\* The Commit arm.
WriteCommit(write_data, o) ==
    LET commit_obj == o.commit
        head == write_data
                  \o B_commit \o commit_obj.commit_ref \o <<NL>>
                  \o B_mark \o to_string(commit_obj.mark) \o <<NL>>
                  \o B_original_oid \o commit_obj.original_oid \o <<NL>>
        people == write_person_info(WriteAuthor(head, commit_obj),
                                    commit_obj.committer, FALSE)
        msg == people \o B_data \o CommitDataToken(o) \o <<NL>>
                      \o commit_obj.commit_message \o <<NL>>
        parents == WriteMerges(msg, commit_obj.merges, TRUE)
    IN  WriteFileOps(parents, commit_obj.fileops) \o <<NL>>

\* Variant: the blob's length is computed from its payload.
BlobDataToken_Recomputed(o) == to_string(Len(o.blob.data))

\* write_data.extend(obj.data_size.as_bytes())
BlobDataToken(o) == o.data_size

\* The Blob arm.
WriteBlob(write_data, o) ==
    write_data
        \o B_blob
        \o B_mark \o to_string(o.blob.mark) \o <<NL>>
        \o B_original_oid \o o.blob.original_oid \o <<NL>>
        \o B_data \o BlobDataToken(o) \o <<NL>>
        \o o.blob.data \o <<NL>>

\* The bytes write_to_stream hands to stream.write_all for the object o.
write_to_stream(o) ==
    LET feature == IF o.has_feature_done THEN B_feature_done ELSE <<>>
        reset == WriteReset(feature, o)
    IN  IF o.object_type = "Commit" THEN WriteCommit(reset, o)
        ELSE IF o.object_type = "Blob" THEN WriteBlob(reset, o)
        ELSE reset

\* The objects handed to write_to_stream.
Ref == <<"r", "e", "f", "s", "/", "h", "e", "a", "d", "s", "/", "m">>
Oid == <<"a", "1", "b", "2">>
Email == <<"a", "@", "b", ".", "c">>
Time == <<"1", " ", "+", "0", "0", "0", "0">>
Named == [name |-> Some(<<"A", "l", " ", "B", "o">>), email |-> Email, timestr |-> Time]
Nameless == [name |-> NoneStr, email |-> Email, timestr |-> Time]
NoPerson == [some |-> FALSE, val |-> Nameless]



\* Length tokens: the length of a payload, a wrong one, and one with a
\* leading zero.
DataSizes == {<<"3">>, <<"1", "2">>, <<"0", "3">>}

\* Parent lists: up to MaxMerges distinct marks of 1 .. MaxMerges, starting
\* at any mark and wrapping round, so that lists are not always ascending.
MergeLists ==
    {[i \in 1 .. k |-> ((i + r - 1) % MaxMerges) + 1] : k \in 0 .. MaxMerges,
                                                       r \in 0 .. (MaxMerges - 1)}

FileOp(op, x, y, z) == [op |-> op, a |-> x, b |-> y, c |-> z]
FileModify == FileOp("FileModify", <<"1", "0", "0", "6", "4", "4">>, <<":", "3">>, <<"s", "r", "c", "/", "a", " ", "b", ".", "r", "s">>)
FileDelete == FileOp("FileDelete", <<"o", "l", "d", ".", "t", "x", "t">>, <<>>, <<>>)
FileCopy == FileOp("FileCopy", <<"x">>, <<"y">>, <<>>)
FileRename == FileOp("FileRename", <<"y">>, <<"z">>, <<>>)
FileDeleteAll == FileOp("FileDeleteAll", <<>>, <<>>, <<>>)
NoteModify == FileOp("NoteModify", <<":", "4">>, <<":", "5">>, <<>>)

FileOpLists ==
    {<<>>, <<FileModify>>, <<FileDelete, FileCopy, FileRename>>,
     <<FileDeleteAll, NoteModify, FileModify>>}

NoCommit == [commit_ref |-> <<>>, mark |-> 0, original_oid |-> <<>>, author |-> NoPerson,
             committer |-> Nameless, commit_message |-> <<>>, merges |-> <<>>,
             fileops |-> <<>>]

CommitObjects ==
    [commit_ref : {Ref}, mark : {12}, original_oid : {Oid},
     author : {NoPerson, Some(Named), Some(Nameless)},
     committer : {Named, Nameless},
     commit_message : {<<>>, <<"f", "i", "x", NL, "i", "t">>,
                       <<"h", "e", "l", "l", "o", " ", "w", "o", "r", "l", "d", "!">>},
     merges : MergeLists, fileops : FileOpLists]

BlobObjects ==
    [mark : {7, 12}, original_oid : {Oid},
     data : {<<>>, <<"a", NL, "b">>,
             <<"0", "1", "2", "3", "4", "5", "6", "7", "8", "9", "a", "b">>}]

ExportObjects ==
    [has_feature_done : BOOLEAN,
     has_reset : {NoneStr, Some(Ref)},
     has_reset_from : {NoneStr, Some(<<":", "9">>)},
     data_size : DataSizes,
     object_type : {"Commit"}, commit : CommitObjects, blob : {[mark |-> 0, original_oid |-> <<>>, data |-> <<>>]}]
    \cup
    [has_feature_done : BOOLEAN,
     has_reset : {NoneStr, Some(Ref)},
     has_reset_from : {NoneStr, Some(<<":", "9">>)},
     data_size : DataSizes,
     object_type : {"Blob"}, commit : {NoCommit}, blob : BlobObjects]

\* write_to_stream is called with an object and an empty stream.
WriteInit ==
    /\ export_obj \in ExportObjects
    /\ sink = <<>>
    /\ thread_arg = NoneInt
    /\ cpu_count = 1
    /\ n_parsing_threads = Unresolved
    /\ panic_mark = 0
    /\ stream = <<>>
    /\ tokenizer_fails = FALSE
    /\ cb_fail_mark = 0
    /\ Started
    /\ CliIdle
    /\ RepoFileIdle

\* stream.write_all(&write_data)
WriteObject ==
    /\ export_obj # NoExport
    /\ sink = <<>>
    /\ sink' = sink \o write_to_stream(export_obj)
    /\ UNCHANGED <<thread_arg, cpu_count, export_obj, panic_mark, stream,
                   tokenizer_fails, n_parsing_threads, cb_fail_mark, counter,
                   reader, filter_res, parse_rx, worker, held, rx, rx_alive,
                   main, expected, wait_heap, delivered, cb_site, result,
                   orchestration, repofile>>

WriteSpec == WriteInit /\ [][WriteObject]_vars

\* ---- orchestration helpers (core.rs) --------------------------------------
MaxCalls == 2

Panic == [tag |-> "Panic", err |-> "none", at |-> 0]
Died(msg) == [tag |-> "Died", err |-> msg, at |-> 0]

\* What one call did: its result, the filter runs and commands it executed,
\* the lines it printed, what it asked git or the file system without
\* changing anything, and the lines it wrote to stderr without ending the
\* process.  The value returned, if any, and the directory the process moved
\* to, if it moved, are set by the caller of Outcome.
Outcome(res, effects, lines, queries, errlines) ==
    [res |-> res, value |-> <<>>, effects |-> effects, lines |-> lines,
     queries |-> queries, errlines |-> errlines, chdir |-> <<>>]

\* A call that asks git nothing and writes nothing to stderr.
Did(res, effects, lines) == Outcome(res, effects, lines, <<>>, <<>>)

\* if let Err(e) = <the _res function> { die!("{}", e) }
OrDie(did) == IF did.res.tag = "Err" THEN [did EXCEPT !.res = Died(did.res.err)] ELSE did

\* delete_branch: a failure is reported on stderr and the function returns.
delete_branch(branch_name, delete_ok) ==
    Outcome(Ok, <<"delete_branch">>, <<>>, <<>>,
            IF delete_ok THEN <<>> ELSE <<"Failed to delete branch: " \o branch_name>>)

\* _get_current_dir: env::current_dir() or die; dir is the directory the
\* process is in when the call is made.
_get_current_dir(cwd_ok, dir) ==
    IF cwd_ok
    THEN [Outcome(Ok, <<>>, <<>>, <<"current_dir">>, <<>>) EXCEPT !.value = <<dir>>]
    ELSE Outcome(Died("Failed to find your current directory"), <<>>, <<>>,
                 <<"current_dir">>, <<>>)

\* get_repo_root: git_helpers3::get_repo_root() or die.
get_repo_root(root_ok) ==
    IF root_ok
    THEN [Outcome(Ok, <<>>, <<>>, <<"get_repo_root">>, <<>>) EXCEPT !.value = <<"/repo">>]
    ELSE Outcome(Died("Must run this command from a git repository"), <<>>, <<>>,
                 <<"get_repo_root">>, <<>>)

\* get_repo_root, then env::set_current_dir(repo_root): on success the
\* process is in the repository root, which chdir records.
go_to_repo_root(root_ok, chdir_ok) ==
    IF ~root_ok THEN get_repo_root(root_ok)
    ELSE IF ~chdir_ok
    THEN Outcome(Died("Failed to change to repo root"), <<"set_current_dir">>, <<>>,
                 <<"get_repo_root">>, <<>>)
    ELSE [Outcome(Ok, <<"set_current_dir">>, <<>>, <<"get_repo_root">>, <<>>)
          EXCEPT !.chdir = get_repo_root(root_ok).value]

\* error_if_array_invalid on an Option<Vec<String>>: Err unless the variable
\* is None or include_var_valid.
error_if_array_invalid(var, can_be_single, varname) ==
    LET vlen == Len(var.val)
        include_var_valid == (vlen = 1 /\ can_be_single) \/ (vlen >= 1 /\ vlen % 2 = 0)
    IN  IF var.some /\ ~include_var_valid
        THEN Did(Err(varname \o " is invalid. Must be either a single string, or an even length array of strings", 0),
                 <<>>, <<>>)
        ELSE Did(Ok, <<>>, <<>>)

\* try_get_repo_name_with_slash_type on a string given as the sequence of
\* its chars, a char outside ASCII written "U+" and its code point; url_ok is
\* the answer of is_valid_remote_repo (GitUrl::parse(remote_repo).is_ok()).
\* trim_end removes the trailing chars that have the White_Space property.
try_get_repo_name_with_slash_type(remote_repo, slash_type, url_ok) ==
    LET White_Space == {"\t", "\n", "U+000B", "\f", "\r", " ", "U+0085", "U+00A0",
                        "U+1680", "U+2000", "U+2001", "U+2002", "U+2003", "U+2004",
                        "U+2005", "U+2006", "U+2007", "U+2008", "U+2009", "U+200A",
                        "U+2028", "U+2029", "U+202F", "U+205F", "U+3000"}
        Upto(str, n) == SubSeq(str, 1, n)
        After(str, n) == SubSeq(str, n + 1, Len(str))
        Where(str, ch) == {i \in 1 .. Len(str) : str[i] = ch}
        Last(set) == CHOOSE i \in set : \A j \in set : j <= i
        First(set) == CHOOSE i \in set : \A j \in set : i <= j
        trim_end(str) ==
            LET kept == {i \in 1 .. Len(str) : str[i] \notin White_Space}
            IN  IF kept = {} THEN <<>> ELSE Upto(str, Last(kept))
        get_string_after_last_slash(str) ==
            IF Where(str, slash_type) = {} THEN str ELSE After(str, Last(Where(str, slash_type)))
        get_string_before_first_dot(str) ==
            IF Where(str, ".") = {} THEN str ELSE Upto(str, First(Where(str, ".")) - 1)
        trimmed == IF url_ok THEN trim_end(remote_repo) ELSE <<>>
        popped == IF Len(trimmed) >= 1 /\ trimmed[Len(trimmed)] = slash_type
                  THEN Upto(trimmed, Len(trimmed) - 1) ELSE trimmed
        out_str == IF Where(popped, slash_type) = {} THEN <<>> ELSE popped
    IN  get_string_before_first_dot(get_string_after_last_slash(out_str))

\* try_get_repo_name_from_remote_repo where MAIN_SEPARATOR is '/': the name
\* found with '/', else the name found with '\', else die.  The strings of
\* the result are the chars written one after the other.
try_get_repo_name_from_remote_repo(remote_repo, url_ok) ==
    LET RECURSIVE Written(_)
        Written(str) == IF str = <<>> THEN "" ELSE Head(str) \o Written(Tail(str))
        native == try_get_repo_name_with_slash_type(remote_repo, "/", url_ok)
        repo_name == IF native = <<>>
                     THEN try_get_repo_name_with_slash_type(remote_repo, "\\", url_ok)
                     ELSE native
    IN  IF repo_name = <<>>
        THEN Did(Died("Failed to parse repo_name from remote_repo: " \o Written(remote_repo)),
                 <<>>, <<>>)
        ELSE [Did(Ok, <<>>, <<>>) EXCEPT !.value = <<Written(repo_name)>>]

RECURSIVE RepoFilesOf(_, _, _)
RECURSIVE get_all_repo_files(_, _, _)
\* The loop of get_all_repo_files over the entries read_dir gives, in the
\* order it gives them.  An entry is [path, utf8, kind, ext, sub]: kind is
\* "dir", "file", "other" or "error" (the entry cannot be read), sub what is
\* behind a "dir".  The first entry that fails ends the loop.
RepoFilesOf(entries, recursive, any) ==
    IF entries = <<>> THEN Did(Ok, <<>>, <<>>)
    ELSE LET entry == Head(entries)
             taken == entry.kind = "file" /\ (any \/ entry.ext = "rf")
             first ==
                 IF entry.kind = "error" THEN Did(Err("read_dir entry", 0), <<>>, <<>>)
                 ELSE IF entry.kind = "dir" /\ recursive
                 THEN (IF ~entry.utf8 THEN Did(Panic, <<>>, <<>>)
                       ELSE get_all_repo_files([path |-> entry.path,
                                                readable |-> entry.sub.readable,
                                                entries |-> entry.sub.entries],
                                               recursive, any))
                 ELSE IF taken /\ ~entry.utf8 THEN Did(Panic, <<>>, <<>>)
                 ELSE IF taken THEN [Did(Ok, <<>>, <<>>) EXCEPT !.value = <<entry.path>>]
                 ELSE Did(Ok, <<>>, <<>>)
             rest == RepoFilesOf(Tail(entries), recursive, any)
         IN  IF first.res # Ok THEN first
             ELSE IF rest.res # Ok THEN [rest EXCEPT !.queries = first.queries \o @]
             ELSE [rest EXCEPT !.value = first.value \o @, !.queries = first.queries \o @]

\* get_all_repo_files: read_dir(dir)? and then the loop; one read_dir for
\* each directory entered, and the error of the directory that cannot be read.
get_all_repo_files(dir, recursive, any) ==
    LET asked == <<"read_dir " \o dir.path>>
        looped == RepoFilesOf(dir.entries, recursive, any)
    IN  IF ~dir.readable
        THEN Outcome(Err("read_dir " \o dir.path, 0), <<>>, <<>>, asked, <<>>)
        ELSE [looped EXCEPT !.queries = asked \o @]

\* verify_dependencies: executed_successfully(["git", "--version"]).
verify_dependencies(git_ok) ==
    Outcome(IF git_ok THEN Ok ELSE Died("Failed to run. Missing dependency 'git'"),
            <<>>, <<>>, <<"git --version">>, <<>>)

\* safe_to_proceed_res on the answers ("no", "yes" or "error") of
\* has_modified_files and has_staged_files: Ok(safe) or the error of the
\* first query that fails;
\* has_staged_files is asked only when no file is modified.
safe_to_proceed_res(modified, staged) ==
    IF modified = "error"
    THEN [res |-> Err("has_modified_files", 0), safe |-> FALSE, queries |-> <<"has_modified_files">>]
    ELSE IF modified = "yes"
    THEN [res |-> Ok, safe |-> FALSE, queries |-> <<"has_modified_files">>]
    ELSE IF staged = "error"
    THEN [res |-> Err("has_staged_files", 0), safe |-> FALSE,
          queries |-> <<"has_modified_files", "has_staged_files">>]
    ELSE [res |-> Ok, safe |-> staged = "no",
          queries |-> <<"has_modified_files", "has_staged_files">>]

\* safe_to_proceed: dies unless the index state is known and clean.
safe_to_proceed(modified, staged) ==
    LET r == safe_to_proceed_res(modified, staged)
    IN  Outcome(IF r.res # Ok THEN Died("Failed to determine index state")
                ELSE IF ~r.safe THEN Died("You have modified or staged changes")
                ELSE Ok,
                <<>>, <<>>, r.queries, <<>>)

\* Variant: the early return on dry_run is missing.
perform_gitfilter_res_NoEarlyReturn(dry_run, verbose, filter_ok, reset_ok) ==
    LET lines == IF dry_run \/ verbose THEN <<"Running with filter rules">> ELSE <<>>
    IN  IF ~filter_ok
        THEN Did(Err("Failed to perform gitfilter", 0), <<"filter_with_rules_direct">>, lines)
        ELSE IF ~reset_ok
        THEN Did(Err("Failed to reset git stage after filter", 0),
                 <<"filter_with_rules_direct", "reset_stage">>, lines)
        ELSE Did(Ok, <<"filter_with_rules_direct", "reset_stage">>, lines)

\* perform_gitfilter_res; filter_ok and reset_ok are the outcomes of the
\* filter run and of git_helpers3::reset_stage.
perform_gitfilter_res(dry_run, verbose, filter_ok, reset_ok) ==
    LET lines == IF dry_run \/ verbose THEN <<"Running with filter rules">> ELSE <<>>
    IN  IF dry_run THEN Did(Ok, <<>>, lines)
        ELSE IF ~filter_ok
        THEN Did(Err("Failed to perform gitfilter", 0), <<"filter_with_rules_direct">>, lines)
        ELSE IF ~reset_ok
        THEN Did(Err("Failed to reset git stage after filter", 0),
                 <<"filter_with_rules_direct", "reset_stage">>, lines)
        ELSE Did(Ok, <<"filter_with_rules_direct", "reset_stage">>, lines)

\* checkout_output_branch: output_branch.unwrap() comes first.
checkout_output_branch(output_branch, dry_run, verbose, checkout_ok) ==
    IF ~output_branch.some THEN Did(Panic, <<>>, <<>>)
    ELSE IF dry_run THEN Did(Ok, <<>>, <<"git checkout " \o output_branch.val>>)
    ELSE IF ~checkout_ok
    THEN Did(Died("Failed to checkout branch"), <<"git checkout">>, <<>>)
    ELSE Did(Ok, <<"git checkout">>,
             IF verbose THEN <<" checked out branch " \o output_branch.val>> ELSE <<>>)

RECURSIVE ReplaceFrom(_, _, _, _)
\* str::replace from character i on: every match of pat, found from left to
\* right without overlap, becomes to.
ReplaceFrom(str, pat, to, i) ==
    IF i > Len(str) THEN ""
    ELSE IF i + Len(pat) - 1 <= Len(str) /\ SubSeq(str, i, i + Len(pat) - 1) = pat
    THEN to \o ReplaceFrom(str, pat, to, i + Len(pat))
    ELSE SubSeq(str, i, i) \o ReplaceFrom(str, pat, to, i + 1)

\* upstream_branch.replace("refs/heads/", "")
StripHeads(ref) == ReplaceFrom(ref, "refs/heads/", "", 1)

\* rebase; exec is the outcome of executing 'git rebase': "ok", "error"
\* (could not execute), "status" (non-zero exit with a line on stderr) or
\* "silent" (non-zero exit, empty stderr: lines().next().unwrap() panics).
rebase(repo_original_ref, dry_run, verbose, exec) ==
    IF ~repo_original_ref.some
    THEN Did(Ok, <<>>, <<"Failed to get repo original ref. Not going to rebase">>)
    ELSE LET upstream_branch == StripHeads(repo_original_ref.val)
             lines == IF verbose THEN <<"rebasing onto " \o upstream_branch>> ELSE <<>>
         IN  IF dry_run
             THEN Did(Ok, <<>>, Append(lines, "git rebase " \o upstream_branch))
             ELSE IF exec = "ok" THEN Did(Ok, <<"git rebase">>, lines)
             ELSE IF exec = "silent" THEN Did(Panic, <<"git rebase">>, lines)
             ELSE Did(Err("Failed to rebase", 0), <<"git rebase">>, lines)

\* make_and_checkout_output_branch_res
make_and_checkout_output_branch_res(output_branch, dry_run, verbose, checkout_ok) ==
    IF ~output_branch.some THEN Did(Err("Must provide an output branch", 0), <<>>, <<>>)
    ELSE IF dry_run THEN Did(Ok, <<>>, <<"git checkout -b " \o output_branch.val>>)
    ELSE IF ~checkout_ok
    THEN Did(Err("Failed to checkout new branch", 0), <<"git checkout -b">>, <<>>)
    ELSE Did(Ok, <<"git checkout -b">>,
             IF verbose THEN <<"created and checked out new branch " \o output_branch.val>>
             ELSE <<>>)

\* make_and_checkout_orphan_branch_res
make_and_checkout_orphan_branch_res(orphan_branch, dry_run, verbose, orphan_ok, rm_ok) ==
    IF dry_run
    THEN Did(Ok, <<>>, <<"git checkout --orphan " \o orphan_branch, "git rm -rf . > /dev/null">>)
    ELSE IF ~orphan_ok
    THEN Did(Err("Failed to checkout orphan branch", 0), <<"git checkout --orphan">>, <<>>)
    ELSE IF ~rm_ok
    THEN Did(Err("Failed to remove git indexed files", 0),
             <<"git checkout --orphan", "git rm -rf .">>, <<>>)
    ELSE Did(Ok, <<"git checkout --orphan", "git rm -rf .">>,
             IF verbose THEN <<"created and checked out orphan branch " \o orphan_branch>>
             ELSE <<>>)

\* populate_empty_branch_with_remote_commits_res; the result of the merge is
\* discarded, the pull's is not.
populate_empty_branch_with_remote_commits_res(remote_repo, input_branch, remote_branch, dry_run, pull_ok) ==
    LET remote_repo_name == IF remote_repo.some THEN remote_repo.val ELSE "?"
        remote_string == IF remote_branch.some /\ remote_branch.val # ""
                         THEN remote_repo_name \o ":" \o remote_branch.val
                         ELSE remote_repo_name
    IN
    IF dry_run /\ input_branch.some
    THEN Did(Ok, <<>>, <<"git merge " \o input_branch.val>>)
    ELSE IF dry_run
    THEN (IF remote_repo.some THEN Did(Ok, <<>>, <<"git pull " \o remote_repo.val>>)
          ELSE Did(Panic, <<>>, <<>>))
    ELSE IF input_branch.some
    THEN Did(Ok, <<"git merge">>, <<"Merging " \o input_branch.val>>)
    ELSE IF ~remote_repo.some THEN Did(Panic, <<>>, <<"Pulling from " \o remote_string>>)
    ELSE IF ~pull_ok
    THEN Did(Err("Failed to pull remote repo", 0), <<"git pull">>,
             <<"Pulling from " \o remote_string>>)
    ELSE Did(Ok, <<"git pull">>, <<"Pulling from " \o remote_string>>)

\* Everything but the orchestration state.
pipeline == <<thread_arg, cpu_count, export_obj, sink, panic_mark,
              stream, tokenizer_fails, n_parsing_threads, cb_fail_mark, counter,
              reader, filter_res, parse_rx, worker, held, rx, rx_alive, main,
              expected, wait_heap, delivered, cb_site, result>>

PipelineIdle ==
    /\ thread_arg = NoneInt
    /\ cpu_count = 1
    /\ n_parsing_threads = Unresolved
    /\ panic_mark = 0
    /\ stream = <<>>
    /\ tokenizer_fails = FALSE
    /\ cb_fail_mark = 0
    /\ Started
    /\ SerializerIdle

NoName == [some |-> FALSE, val |-> ""]

BranchArgs == {NoName, Some("out")}

RunFunctions == {"run_split_in", "run_split_in_as", "run_split_out", "run_split_out_as"}

\* A run function has been entered and calls helpers.
HelperInit ==
    /\ PipelineIdle
    /\ RepoFileIdle
    /\ mgt_opts = NoMgt
    /\ cmd \in [name : {"SplitOut"}, verbose : BOOLEAN, dry_run : BOOLEAN,
                rebase_flag : {FALSE}, rebase : {NoName}, topbase_flag : {FALSE},
                topbase : {NoName}, direction : {"Out"}]
    /\ ran = "run_split_out"
    /\ git_effects = <<>>
    /\ printed = <<>>
    /\ helper_res = <<>>
    /\ cwd \in {"/repo", "/repo/sub"}

\* The process is still running: no helper panicked or died.
Alive == \A i \in 1 .. Len(helper_res) : helper_res[i].res.tag \notin {"Panic", "Died"}

\* One helper call: 'given' says whether the branch, ref or remote the helper
\* works on was passed.
HelperCall(helper, given, did) ==
    /\ ran \in RunFunctions
    /\ Alive
    /\ Len(helper_res) < MaxCalls
    /\ git_effects' = git_effects \o did.effects
    /\ printed' = printed \o did.lines
    /\ helper_res' = Append(helper_res, [helper |-> helper, given |-> given,
                                         res |-> did.res, value |-> did.value,
                                         lines |-> Len(did.lines),
                                         effects |-> Len(did.effects),
                                         queries |-> did.queries,
                                         errlines |-> did.errlines])
    /\ cwd' = IF did.chdir = <<>> THEN cwd ELSE did.chdir[1]
    /\ UNCHANGED <<pipeline, repofile, mgt_opts, cmd, ran>>

PerformGitfilter ==
    \E filter_ok, reset_ok \in BOOLEAN :
        HelperCall("perform_gitfilter_res", TRUE,
                   perform_gitfilter_res(cmd.dry_run, cmd.verbose, filter_ok, reset_ok))

CheckoutOutputBranch ==
    \E output_branch \in BranchArgs, checkout_ok \in BOOLEAN :
        HelperCall("checkout_output_branch", output_branch.some,
                   checkout_output_branch(output_branch, cmd.dry_run, cmd.verbose, checkout_ok))

Rebase ==
    \E repo_original_ref \in {NoName, Some("main"), Some("refs/heads/main"),
                              Some("refs/heads/dev"), Some("xrefs/heads/main"),
                              Some("refs/heads/refs/heads/main")},
       exec \in {"ok", "error", "status", "silent"} :
        HelperCall("rebase", repo_original_ref.some,
                   rebase(repo_original_ref, cmd.dry_run, cmd.verbose, exec))

MakeAndCheckoutOutputBranch ==
    \E output_branch \in BranchArgs, checkout_ok \in BOOLEAN :
        HelperCall("make_and_checkout_output_branch_res", output_branch.some,
                   make_and_checkout_output_branch_res(output_branch, cmd.dry_run,
                                                       cmd.verbose, checkout_ok))

MakeAndCheckoutOrphanBranch ==
    \E orphan_ok, rm_ok \in BOOLEAN :
        HelperCall("make_and_checkout_orphan_branch_res", TRUE,
                   make_and_checkout_orphan_branch_res("out", cmd.dry_run, cmd.verbose,
                                                       orphan_ok, rm_ok))

PopulateEmptyBranch ==
    \E remote_repo \in {NoName, Some("https://h/r.git")}, input_branch \in BranchArgs,
       remote_branch \in {NoName, Some("dev")}, pull_ok \in BOOLEAN :
        HelperCall("populate_empty_branch_with_remote_commits_res",
                   input_branch.some \/ remote_repo.some,
                   populate_empty_branch_with_remote_commits_res(
                       remote_repo, input_branch, remote_branch, cmd.dry_run, pull_ok))

\* The wrappers that end the process on the Err of their _res function.
PerformGitfilterOrDie ==
    \E filter_ok, reset_ok \in BOOLEAN :
        HelperCall("perform_gitfilter", TRUE,
                   OrDie(perform_gitfilter_res(cmd.dry_run, cmd.verbose, filter_ok, reset_ok)))

MakeAndCheckoutOutputBranchOrDie ==
    \E output_branch \in BranchArgs, checkout_ok \in BOOLEAN :
        HelperCall("make_and_checkout_output_branch", output_branch.some,
                   OrDie(make_and_checkout_output_branch_res(output_branch, cmd.dry_run,
                                                             cmd.verbose, checkout_ok)))

MakeAndCheckoutOrphanBranchOrDie ==
    \E orphan_ok, rm_ok \in BOOLEAN :
        HelperCall("make_and_checkout_orphan_branch", TRUE,
                   OrDie(make_and_checkout_orphan_branch_res("out", cmd.dry_run, cmd.verbose,
                                                             orphan_ok, rm_ok)))

PopulateEmptyBranchOrDie ==
    \E remote_repo \in {NoName, Some("https://h/r.git")}, input_branch \in BranchArgs,
       remote_branch \in {NoName, Some("dev")}, pull_ok \in BOOLEAN :
        HelperCall("populate_empty_branch_with_remote_commits",
                   input_branch.some \/ remote_repo.some,
                   OrDie(populate_empty_branch_with_remote_commits_res(
                             remote_repo, input_branch, remote_branch, cmd.dry_run, pull_ok)))

DeleteBranch ==
    \E delete_ok \in BOOLEAN :
        HelperCall("delete_branch", TRUE, delete_branch("out", delete_ok))

GoToRepoRoot ==
    \E root_ok, chdir_ok \in BOOLEAN :
        HelperCall("go_to_repo_root", TRUE, go_to_repo_root(root_ok, chdir_ok))

VerifyDependencies ==
    \E git_ok \in BOOLEAN :
        HelperCall("verify_dependencies", TRUE, verify_dependencies(git_ok))

SafeToProceed ==
    \E modified, staged \in {"no", "yes", "error"} :
        HelperCall("safe_to_proceed", TRUE, safe_to_proceed(modified, staged))

GetCurrentDir ==
    \E cwd_ok \in BOOLEAN : HelperCall("_get_current_dir", TRUE, _get_current_dir(cwd_ok, cwd))

GetRepoRoot ==
    \E root_ok \in BOOLEAN : HelperCall("get_repo_root", TRUE, get_repo_root(root_ok))

\* panic_if_array_invalid: die on the Err of error_if_array_invalid.
PanicIfArrayInvalid ==
    \E var \in {[some |-> FALSE, val |-> <<>>], Some(<<>>), Some(<<"a">>), Some(<<"a", "b">>),
                Some(<<"a", "b", "c">>)},
       can_be_single \in BOOLEAN :
        HelperCall("panic_if_array_invalid", var.some,
                   OrDie(error_if_array_invalid(var, can_be_single, "include")))

\* On the two urls without trailing white space GitUrl::parse succeeds; on
\* the others it may or may not.
TryGetRepoNameFromRemoteRepo ==
    \E url \in {"https://github.com/user/repo.git", "git@github.com:user/lib.git",
                "https://h/u/repo.git/", "a/b", "nothing"},
       tail \in {<<>>, <<"\n">>, <<"U+000B">>, <<" ", "U+2003", "\t">>, <<"U+200B">>},
       url_ok \in BOOLEAN :
        LET remote_repo == [i \in 1 .. Len(url) |-> SubSeq(url, i, i)] \o tail
        IN  /\ (tail = <<>> /\ url \in {"https://github.com/user/repo.git",
                                        "git@github.com:user/lib.git"}) => url_ok
            /\ HelperCall("try_get_repo_name_from_remote_repo", TRUE,
                          try_get_repo_name_from_remote_repo(remote_repo, url_ok))

\* A directory with a repo file, another file, and a subdirectory holding a
\* repo file, listed by read_dir in any order; any of the names may fail to
\* be UTF-8 and the subdirectory may be unreadable.
GetAllRepoFiles ==
    \E recursive, any, readable, utf8 \in BOOLEAN, bad \in 0 .. 3,
       order \in Permutations(1 .. 3) :
        LET leaf == [readable |-> TRUE, entries |-> <<>>]
            file(path, ext, n) == [path |-> path, utf8 |-> (bad # n), kind |-> "file",
                                   ext |-> ext, sub |-> leaf]
            sub == [readable |-> readable, entries |-> <<file("d/sub/c.rf", "rf", 3)>>]
            listing == <<file("d/a.rf", "rf", 1), file("d/b.txt", "txt", 2),
                         [path |-> "d/sub", utf8 |-> utf8, kind |-> "dir",
                          ext |-> "", sub |-> sub]>>
            dir == [path |-> "d", readable |-> TRUE,
                    entries |-> [i \in 1 .. 3 |-> listing[order[i]]]]
        IN  HelperCall("get_all_repo_files", TRUE, get_all_repo_files(dir, recursive, any))

NextHelper ==
    \/ GetCurrentDir
    \/ GetRepoRoot
    \/ PanicIfArrayInvalid
    \/ TryGetRepoNameFromRemoteRepo
    \/ GetAllRepoFiles
    \/ PerformGitfilter
    \/ CheckoutOutputBranch
    \/ Rebase
    \/ MakeAndCheckoutOutputBranch
    \/ MakeAndCheckoutOrphanBranch
    \/ PopulateEmptyBranch
    \/ PerformGitfilterOrDie
    \/ MakeAndCheckoutOutputBranchOrDie
    \/ MakeAndCheckoutOrphanBranchOrDie
    \/ PopulateEmptyBranchOrDie
    \/ DeleteBranch
    \/ GoToRepoRoot
    \/ VerifyDependencies
    \/ SafeToProceed

HelperSpec == HelperInit /\ [][NextHelper]_vars

\* ---- command line (cli.rs) ------------------------------------------------
ValueArgs == {NoName, Some(""), Some("b")}

\* The subcommands: MgtCommandSplit as parsed from the command line under
\* each of the four split subcommands, topbase, check, help, or none.
Commands ==
    [name : {"SplitIn", "SplitInAs", "SplitOut", "SplitOutAs"},
     verbose : BOOLEAN, dry_run : BOOLEAN,
     rebase_flag : BOOLEAN, rebase : ValueArgs,
     topbase_flag : BOOLEAN, topbase : ValueArgs, direction : {"None"}]
    \cup [name : {"Topbase"}, verbose : BOOLEAN, dry_run : BOOLEAN]
    \cup [name : {"Check"}, remote : BOOLEAN, local : BOOLEAN]
    \cup {[name |-> "Help"], NoCmd}

\* cmd.verbose = mgt_opts.verbose || cmd.verbose, and the same for dry_run.
MergeFlags(opts, c) ==
    [c EXCEPT !.verbose = opts.verbose \/ c.verbose, !.dry_run = opts.dry_run \/ c.dry_run]

\* A bare -t or -r becomes Some("").
FlagsToValues(c) ==
    [c EXCEPT !.topbase = IF c.topbase_flag /\ ~c.topbase.some THEN Some("") ELSE c.topbase,
              !.rebase = IF c.rebase_flag /\ ~c.rebase.some THEN Some("") ELSE c.rebase]

\* The arm of split-in, split-in-as and split-out.
ValidatedSplit(opts, c, direction, run) ==
    LET merged == [MergeFlags(opts, c) EXCEPT !.direction = direction]
        valued == FlagsToValues(merged)
    IN  IF valued.rebase.some /\ valued.topbase.some
        THEN [ran |-> "died", cmd |-> valued]
        ELSE [ran |-> run, cmd |-> valued]

\* The arm of split-out-as.
SplitOutAsArm(opts, c) ==
    [ran |-> "run_split_out_as", cmd |-> [MergeFlags(opts, c) EXCEPT !.direction = "Out"]]

\* validate_input_and_run: the run function reached and the command it gets.
validate_input_and_run(opts) ==
    LET c == opts.command
    IN  CASE c.name = "None" -> [ran |-> "returned", cmd |-> c]
          [] c.name = "Help" -> [ran |-> "exit", cmd |-> c]
          [] c.name = "Check" ->
                 IF c.remote /\ c.local THEN [ran |-> "died", cmd |-> c]
                 ELSE [ran |-> "run_check", cmd |-> c]
          [] c.name = "Topbase" -> [ran |-> "run_topbase", cmd |-> MergeFlags(opts, c)]
          [] c.name = "SplitIn" -> ValidatedSplit(opts, c, "In", "run_split_in")
          [] c.name = "SplitInAs" -> ValidatedSplit(opts, c, "In", "run_split_in_as")
          [] c.name = "SplitOut" -> ValidatedSplit(opts, c, "Out", "run_split_out")
          [] c.name = "SplitOutAs" -> SplitOutAsArm(opts, c)

\* main: validate_input_and_run(get_cli_input())
CliInit ==
    /\ PipelineIdle
    /\ RepoFileIdle
    /\ mgt_opts \in [dry_run : BOOLEAN, verbose : BOOLEAN, command : Commands]
    /\ cmd = NoCmd
    /\ ran = "none"
    /\ git_effects = <<>>
    /\ printed = <<>>
    /\ helper_res = <<>>
    /\ cwd = "/repo/sub"

ValidateInputAndRun ==
    /\ ran = "none"
    /\ ran' = validate_input_and_run(mgt_opts).ran
    /\ cmd' = validate_input_and_run(mgt_opts).cmd
    /\ UNCHANGED <<pipeline, repofile, mgt_opts, git_effects, printed, helper_res, cwd>>

CliSpec == CliInit /\ [][ValidateInputAndRun]_vars

\* ---- repo file (repo_file.rs) ---------------------------------------------
MaxLines == 4

\* Lines of a repo file, each a sequence of characters: empty, blanks only,
\* text, indented text.
RepoFiles ==
    UNION {[1 .. n -> {<<>>, <<" ">>, <<" ", " ">>, <<"a">>, <<" ", "a">>}] : n \in 0 .. MaxLines}

\* line_is_break: no character of the line differs from ' '.
line_is_break(line) == \A k \in 1 .. Len(line) : line[k] = " "

\* The body of `for (line_ind, line) in lines.iter().enumerate()`, on the
\* pair (last_line_was_break, segment_indices).
ScanBody(last, indices, ind, line) ==
    IF line_is_break(line)
    THEN IF last
         THEN [last |-> FALSE, indices |-> Append(indices, ind)]
         ELSE [last |-> TRUE, indices |-> indices]
    ELSE [last |-> last, indices |-> indices]

RECURSIVE JoinLines(_)
\* toml_segment: string_vec[0], then '\n' and string_vec[j] for each j >= 1.
JoinLines(string_vec) ==
    IF Len(string_vec) = 1 THEN string_vec[1]
    ELSE JoinLines(SubSeq(string_vec, 1, Len(string_vec) - 1))
             \o <<NL>> \o string_vec[Len(string_vec)]

\* parse_repo_file_from_toml_lines(lines) is entered.
RepoFileInit ==
    /\ PipelineIdle
    /\ CliIdle
    /\ repo_lines \in RepoFiles
    /\ repo_pc = "scan"
    /\ line_ind = 0
    /\ last_line_was_break = FALSE
    /\ segment_indices = <<>>
    /\ seg_pos = 1
    /\ current_index = 0
    /\ toml_segments = <<>>

\* One iteration of the first loop.
ScanLine ==
    /\ repo_pc = "scan"
    /\ line_ind < Len(repo_lines)
    /\ LET body == ScanBody(last_line_was_break, segment_indices, line_ind,
                            repo_lines[line_ind + 1])
       IN  /\ last_line_was_break' = body.last
           /\ segment_indices' = body.indices
    /\ line_ind' = line_ind + 1
    /\ UNCHANGED <<pipeline, orchestration, repo_lines, repo_pc, seg_pos,
                   current_index, toml_segments>>

\* segment_indices.push(lines.len()) after the first loop.
EndOfFile ==
    /\ repo_pc = "scan"
    /\ line_ind = Len(repo_lines)
    /\ segment_indices' = Append(segment_indices, Len(repo_lines))
    /\ repo_pc' = "group"
    /\ UNCHANGED <<pipeline, orchestration, repo_lines, line_ind,
                   last_line_was_break, seg_pos, current_index, toml_segments>>

\* One iteration of `for i in segment_indices`.
GroupSegment ==
    /\ repo_pc = "group"
    /\ seg_pos <= Len(segment_indices)
    /\ LET i == segment_indices[seg_pos]
           string_vec == SubSeq(repo_lines, current_index + 1, i)
       IN  IF Len(string_vec) = 0
           THEN UNCHANGED <<toml_segments, current_index>>
           ELSE /\ toml_segments' = Append(toml_segments, JoinLines(string_vec))
                /\ current_index' = i
    /\ seg_pos' = seg_pos + 1
    /\ UNCHANGED <<pipeline, orchestration, repo_lines, repo_pc, line_ind,
                   last_line_was_break, segment_indices>>

\* The second loop ends; toml_segments goes to
\* parse_repo_file_from_toml_segments.
SegmentsDone ==
    /\ repo_pc = "group"
    /\ seg_pos > Len(segment_indices)
    /\ repo_pc' = "done"
    /\ UNCHANGED <<pipeline, orchestration, repo_lines, line_ind,
                   last_line_was_break, segment_indices, seg_pos, current_index,
                   toml_segments>>

NextRepoFile ==
    \/ ScanLine
    \/ EndOfFile
    \/ GroupSegment
    \/ SegmentsDone

RepoFileSpec == RepoFileInit /\ [][NextRepoFile]_vars

\* ---- properties ---------------------------------------------------------
Returned == main = "returned"

AllBuild == \A i \in 1 .. Len(stream) : parse_into_structured_object(stream[i]).ok

CbNeverFails == cb_fail_mark = 0

\* The object built from the record with sequence index i (0-based).
ObjectOf(i) == parse_into_structured_object(stream[i + 1]).obj

\* C1: the n-th callback invocation (from 0) receives the object built from
\* the record with sequence index n: stream order, at most once per record.
C1_CallbackInStreamOrder ==
    /\ Len(delivered) <= Len(stream)
    /\ \A i \in 1 .. Len(delivered) : delivered[i] = ObjectOf(i - 1)

\* A later result overtook an earlier one and waits in the heap, after a
\* first object was delivered, with commits and blobs both in the stream.
C1_Witness ==
    /\ n_parsing_threads >= 2
    /\ Len(delivered) >= 1
    /\ wait_heap # <<>>
    /\ \E i, j \in 1 .. Len(stream) : stream[i].shape = "commit" /\ stream[j].shape = "blob"

\* C2: when the driver returns Ok, cb has been invoked once for each of the
\* M records the reader produced and the reassembly heap is empty.  It holds
\* while no worker panics; a worker that panics is never joined, and the
\* driver then returns Ok without the record that worker held.
C2_OkMeansAllDelivered ==
    (Returned /\ result = Ok) =>
        /\ Len(delivered) = Len(stream)
        /\ \A i \in 1 .. Len(stream) : delivered[i].mark = stream[i].mark
        /\ wait_heap = <<>>
        /\ rx = <<>>

\* C3: on a stream where every record builds, with a callback that never
\* fails, the driver has delivered, for every thread count, exactly the
\* sequence the sequential entry point delivers.
C3_SameAsSequential ==
    (Returned /\ AllBuild /\ CbNeverFails /\ n_parsing_threads >= 1) =>
        delivered = Sequential.delivered

\* A finished run over several threads with results that arrived out of order.
C3_Witness ==
    /\ Returned
    /\ AllBuild
    /\ CbNeverFails
    /\ n_parsing_threads = MaxThreads
    /\ Len(stream) >= 2
    /\ cb_site = "drain"
    /\ delivered = Sequential.delivered

\* C4: when cb returns Err on the object at position k the driver returns
\* that error and cb is never invoked for a position after k.
C4_CallbackErrorStops ==
    \A i \in 1 .. Len(delivered) :
        ~cb(delivered[i]) =>
            /\ i = Len(delivered)
            /\ Returned
            /\ result = Err("callback", i - 1)

\* cb failed inside the heap-drain loop while later objects were buffered.
C4_Witness ==
    /\ Returned
    /\ result.err = "callback"
    /\ cb_site = "drain"
    /\ wait_heap # <<>>

\* C5: a ParseError is released at its own position: when the driver
\* returns the error of record k, cb has been invoked for exactly the records
\* 0 .. k-1.
C5_ParseErrorAtItsPosition ==
    (Returned /\ result.err = "parse") =>
        /\ Len(delivered) = result.at
        /\ \A i \in 1 .. Len(delivered) : delivered[i] = ObjectOf(i - 1)

\* C6: a ParseError reaching the reassembly loop aborts it at once: the
\* driver returns that error, cb is invoked neither for the failing record
\* nor for anything after it, and no default object stands in for the record.
C6_ParseErrorAbortsAtOnce ==
    /\ [](result.err = "parse" =>
            /\ Returned
            /\ ~parse_into_structured_object(stream[result.at + 1]).ok)
    /\ [](\A i \in 1 .. Len(delivered) :
            /\ delivered[i] # NoObj
            /\ parse_into_structured_object(stream[delivered[i].mark]).ok)
    /\ [][(main = "loop" /\ rx # <<>> /\ ~Head(rx).parsed.ok /\ Len(rx') < Len(rx)) =>
            /\ main' = "returned"
            /\ result' = Err("parse", Head(rx).index)
            /\ delivered' = delivered
            /\ wait_heap' = wait_heap]_vars
    /\ [][Returned => (delivered' = delivered /\ result' = result)]_vars

\* The driver returned a ParseError while earlier-received objects were
\* still buffered in the heap.
C6_Witness ==
    /\ Returned
    /\ result.err = "parse"
    /\ wait_heap # <<>>
    /\ Len(delivered) >= 1

\* C8: when the tokenizer fails after emitting k records (every record
\* builds, cb never fails), cb is invoked for all k records in order, the
\* reader's error is returned, and it is seen only by the join that follows
\* the reassembly loop.
C8_ReaderErrorAfterReassembly ==
    (tokenizer_fails /\ AllBuild /\ CbNeverFails /\ n_parsing_threads >= 1) =>
        /\ main # "returned" => result = Pending
        /\ main \in {"join", "returned"} =>
              /\ Len(delivered) = Len(stream)
              /\ \A i \in 1 .. Len(stream) : delivered[i] = ObjectOf(i - 1)
              /\ wait_heap = <<>>
        /\ Returned => result = Err("tokenize", Len(stream))

\* The tokenizer failed after a full-length stream and the driver returned.
C8_Witness ==
    /\ tokenizer_fails
    /\ Returned
    /\ result.err = "tokenize"
    /\ Len(delivered) = MaxRecords
    /\ n_parsing_threads >= 2

\* C9: record i gets index i and goes to worker i mod n_parsing_threads
\* only: each inbound queue holds, in order, indices of its own residue class
\* without gaps, each with the record of that index.
C9_RoundRobinDispatch ==
    /\ counter <= Len(stream)
    /\ \A w \in Workers :
        /\ \A j \in 1 .. Len(parse_rx[w]) :
            /\ parse_rx[w][j].index % n_parsing_threads = w
            /\ parse_rx[w][j].index < counter
            /\ parse_rx[w][j].raw = stream[parse_rx[w][j].index + 1]
            /\ j > 1 => parse_rx[w][j].index = parse_rx[w][j - 1].index + n_parsing_threads
        /\ (parse_rx[w] # <<>> /\ reader = "run") =>
              parse_rx[w][Len(parse_rx[w])].index + n_parsing_threads >= counter
        /\ worker[w] = "build" =>
            /\ held[w].index % n_parsing_threads = w
            /\ held[w].raw = stream[held[w].index + 1]
            /\ parse_rx[w] # <<>> => Head(parse_rx[w]).index = held[w].index + n_parsing_threads

\* Worker 0 is busy and has two more records queued while worker 1 is idle.
C9_Witness ==
    /\ n_parsing_threads = 2
    /\ worker[0] = "build"
    /\ Len(parse_rx[0]) >= 1
    /\ worker[1] = "recv"
    /\ parse_rx[1] = <<>>
    /\ counter = 3

\* C10: while a worker is stuck on record k, the reader is not held up, every
\* other worker can take and emit its own records, and cb is not invoked for
\* any index >= k.
C10_SlowWorkerStallsOnlyItself ==
    \A w \in Workers :
        worker[w] = "build" =>
            /\ Len(delivered) <= held[w].index
            /\ expected <= held[w].index
            /\ (reader = "run" /\ counter < Len(stream)) => ENABLED ReaderDispatch
            /\ \A v \in Workers \ {w} :
                /\ (worker[v] = "recv" /\ parse_rx[v] # <<>>) => ENABLED WorkerTake(v)
                /\ worker[v] = "build" => ENABLED WorkerEmit(v)
                /\ (worker[v] = "recv" /\ parse_rx[v] = <<>> /\ reader # "run")
                      => ENABLED WorkerExit(v)

\* Worker 0 is still on record 0; the reader has finished, the other workers
\* have emitted everything and exited, and their results wait in the heap.
C10_Witness ==
    /\ n_parsing_threads >= 2
    /\ worker[0] = "build"
    /\ held[0].index = 0
    /\ reader = "done"
    /\ \A v \in Workers \ {0} : worker[v] = "exit"
    /\ Len(wait_heap) >= 2
    /\ rx = <<>>
    /\ delivered = <<>>

AllWorkersExited == \A w \in Workers : worker[w] = "exit"

\* C7: with a callback that never fails the driver eventually returns:
\* the reader's end closes the inbound queues, every worker then exits, the
\* outbound queue closes with the last worker, and the loop and join end.
C7_DriverReturns ==
    (CbNeverFails /\ n_parsing_threads >= 1) =>
        /\ <>Returned
        /\ (reader # "run") ~> AllWorkersExited
        /\ [](main = "join" => (AllWorkersExited /\ rx = <<>> /\ reader # "run"))

\* The driver returned Ok after the reader finished and every worker exited.
C7_Witness ==
    /\ CbNeverFails
    /\ n_parsing_threads = MaxThreads
    /\ Len(stream) = MaxRecords
    /\ reader = "done"
    /\ AllWorkersExited
    /\ Returned
    /\ result = Ok

\* The number of places in the pipeline that hold the record (or the object
\* built from it) with sequence index i.
InInbound(i) == Cardinality({w \in Workers : \E j \in 1 .. Len(parse_rx[w]) : parse_rx[w][j].index = i})

InInboundTwice(i) == \E w \in Workers : \E j, k \in 1 .. Len(parse_rx[w]) : j # k /\ parse_rx[w][j].index = i /\ parse_rx[w][k].index = i

InWorker(i) == Cardinality({w \in Workers : worker[w] = "build" /\ held[w].index = i})

InOutbound(i) == Cardinality({j \in 1 .. Len(rx) : rx[j].index = i})

InHeap(i) == Cardinality({j \in 1 .. Len(wait_heap) : wait_heap[j].index = i})

InDelivered(i) == Cardinality({j \in 1 .. Len(delivered) : delivered[j].mark = stream[i + 1].mark})

Places(i) == InInbound(i) + InWorker(i) + InOutbound(i) + InHeap(i) + InDelivered(i)

Aborted == Returned /\ result.err \in {"parse", "callback"}

\* C11: every record is owned by exactly one stage: the reader (not yet
\* dispatched), one inbound queue, one worker, the outbound queue, the heap,
\* or the callback; never two, and until an abort never none.
C11_ExclusiveOwnership ==
    \A i \in 0 .. (Len(stream) - 1) :
        /\ ~InInboundTwice(i)
        /\ Places(i) <= 1
        /\ i >= counter => Places(i) = 0
        /\ (i < counter /\ ~Aborted) => Places(i) = 1

\* Record 0 delivered, record 2 buffered in the heap, record 1 still being
\* built by its worker.
C11_Witness ==
    /\ Len(delivered) = 1
    /\ Len(wait_heap) = 1
    /\ \E w \in Workers : worker[w] = "build" /\ held[w].index = 1
    /\ counter = 3
    /\ ~Aborted

SomeThreadPanicked == reader = "panic" \/ \E w \in Workers : worker[w] = "panic"

\* C12: when a worker thread or the reader thread has panicked, the driver
\* returns the thread-join failure, not Ok and not a data error.
C12_PanicSurfacesAsJoinFailure ==
    (Returned /\ SomeThreadPanicked) => result = Err("join", 0)

Max(a, b) == IF a >= b THEN a ELSE b

\* C13: with None the number of parser threads is max(1, cpu_count - 2),
\* that is cpu_count - 2 from 3 CPUs on and 1 for 1 or 2 CPUs; with Some(n)
\* exactly n threads are spawned.
C13_ThreadCount ==
    n_parsing_threads # Unresolved =>
        /\ thread_arg.some => n_parsing_threads = thread_arg.val
        /\ ~thread_arg.some =>
              /\ n_parsing_threads = Max(1, cpu_count - 2)
              /\ cpu_count >= 3 => n_parsing_threads = cpu_count - 2
              /\ cpu_count \in {1, 2} => n_parsing_threads = 1
        /\ DOMAIN worker = 0 .. (n_parsing_threads - 1)
        /\ DOMAIN parse_rx = DOMAIN worker
        /\ Cardinality(DOMAIN worker) = n_parsing_threads

\* None on a machine with 2 CPUs: one parser thread is spawned.
C13_Witness ==
    /\ ~thread_arg.some
    /\ cpu_count = 2
    /\ n_parsing_threads = 1
    /\ DOMAIN worker = {0}

\* C14: the sequential entry point takes the records one at a time in
\* stream order; each is built and, if that succeeds, handed to cb before the
\* next is touched; a failed build of record k is returned instead of calling
\* cb for k; an Err of cb on record k ends the run with no later call.
C14_SequentialOneAtATime ==
    /\ \A i \in 1 .. Len(delivered) : delivered[i] = ObjectOf(i - 1)
    /\ main = "seq" => (result = Pending /\ Len(delivered) = counter)
    /\ result.err = "parse" =>
          /\ Returned
          /\ ~parse_into_structured_object(stream[result.at + 1]).ok
          /\ Len(delivered) = result.at
          /\ counter = result.at + 1
    /\ \A i \in 1 .. Len(delivered) :
          ~cb(delivered[i]) =>
              /\ i = Len(delivered)
              /\ Returned
              /\ result = Err("callback", i - 1)
              /\ counter = i
    /\ Returned => (delivered = Sequential.delivered /\ result = Sequential.result)
    /\ (Returned /\ result.err \notin {"parse", "callback"}) => Len(delivered) = Len(stream)

\* The run ended on a record that does not build, after earlier records
\* were handed to cb, with records left untouched behind it.
C14_Witness ==
    /\ main = "returned"
    /\ cb_site = "seq"
    /\ result.err = "parse"
    /\ result.at >= 1
    /\ Len(stream) > counter

\* ---- reading the serializer's output back ----------------------------------
Written == sink # <<>>

StartsWith(s, prefix) == Len(s) >= Len(prefix) /\ SubSeq(s, 1, Len(prefix)) = prefix

Drop(s, k) == SubSeq(s, k + 1, Len(s))

HasNL(s) == \E i \in 1 .. Len(s) : s[i] = NL

\* The lines of s, each without its newline; bytes after the last newline
\* form a last, unterminated line.
SplitLines(s) ==
    LET ends == {i \in 1 .. Len(s) : s[i] = NL}
        n == Cardinality(ends)
        end(k) == IF k = 0 THEN 0
                  ELSE CHOOSE i \in ends : Cardinality({j \in ends : j <= i}) = k
        terminated == [k \in 1 .. n |-> SubSeq(s, end(k - 1) + 1, end(k) - 1)]
    IN  IF end(n) = Len(s) THEN terminated
        ELSE Append(terminated, SubSeq(s, end(n) + 1, Len(s)))

\* Number of bytes of the first k lines, newlines included.
RECURSIVE BytesOfLines(_, _)
BytesOfLines(lines, k) ==
    IF k = 0 THEN 0 ELSE BytesOfLines(lines, k - 1) + Len(lines[k]) + 1

RECURSIVE ParseNat(_)
ParseNat(digits) ==
    IF digits = <<>> THEN 0
    ELSE 10 * ParseNat(SubSeq(digits, 1, Len(digits) - 1))
         + (CHOOSE d \in 0 .. 9 : Digits[d + 1] = digits[Len(digits)])

IsNumber(digits) ==
    /\ digits # <<>>
    /\ \A i \in 1 .. Len(digits) : \E d \in 0 .. 9 : Digits[d + 1] = digits[i]
    /\ Len(digits) > 1 => digits[1] # "0"

IsCommit == export_obj.object_type = "Commit"
IsBlob == export_obj.object_type = "Blob"

\* Number of lines taken by 'feature done'.
FeatureLines == IF export_obj.has_feature_done THEN 1 ELSE 0

Least(S) == CHOOSE x \in S : \A y \in S : x <= y

\* The line that opens the commit or blob block.
BlockStart(lines) ==
    Least({i \in 1 .. Len(lines) : StartsWith(lines[i], B_commit) \/ lines[i] = <<"b", "l", "o", "b">>})

\* The 'data' line of the block.
DataLine(lines) == Least({i \in 1 .. Len(lines) : StartsWith(lines[i], B_data)})

\* Lines the commit message takes, and the first line after it.
MessageLines == Cardinality({i \in 1 .. Len(export_obj.commit.commit_message) :
                                export_obj.commit.commit_message[i] = NL}) + 1

AfterMessage(lines) == DataLine(lines) + MessageLines + 1

IsParentLine(line) == StartsWith(line, B_from) \/ StartsWith(line, <<"m", "e", "r", "g", "e", " ">>)

\* C15: the reset block is written only for an object with a reset target:
\* with has_reset = None nothing stands between 'feature done' and the commit
\* or blob line, whatever has_reset_from is; with Some it is 'reset <ref>',
\* the optional 'from' line and a blank line.
C15_ResetBlockOnlyWithReset ==
    Written =>
        LET lines == SplitLines(sink)
        IN  IF export_obj.has_reset.some
            THEN /\ lines[FeatureLines + 1] = B_reset \o export_obj.has_reset.val
                 /\ IF export_obj.has_reset_from.some
                    THEN /\ lines[FeatureLines + 2] = B_from \o export_obj.has_reset_from.val
                         /\ lines[FeatureLines + 3] = <<>>
                         /\ BlockStart(lines) = FeatureLines + 4
                    ELSE /\ lines[FeatureLines + 2] = <<>>
                         /\ BlockStart(lines) = FeatureLines + 3
            ELSE BlockStart(lines) = FeatureLines + 1

\* C16: a commit with merges [P1, .., Pn] gets exactly n parent lines, in
\* that order, right after the message and before the file operations:
\* 'from :P1', then 'merge :Pi'; without merges, no parent line at all.
C16_ParentLines ==
    (Written /\ IsCommit) =>
        LET lines == SplitLines(sink)
            first == AfterMessage(lines)
            merges == export_obj.commit.merges
            n == Len(merges)
        IN  /\ \A i \in 1 .. n :
                  lines[first + i - 1] =
                      (IF i = 1 THEN <<"f", "r", "o", "m", " ", ":">> ELSE <<"m", "e", "r", "g", "e", " ", ":">>) \o to_string(merges[i])
            /\ \A i \in 1 .. n : ParseNat(Drop(lines[first + i - 1],
                                               IF i = 1 THEN 6 ELSE 7)) = merges[i]
            /\ \A j \in first .. Len(lines) : IsParentLine(lines[j]) => j < first + n
            /\ Len(lines) = first - 1 + n + Len(export_obj.commit.fileops) + 1

\* A merge commit with three parents, not in mark order, was written.
C16_Witness ==
    /\ Written
    /\ IsCommit
    /\ Len(export_obj.commit.merges) = 3
    /\ export_obj.commit.merges[1] > export_obj.commit.merges[2]
    /\ export_obj.commit.fileops # <<>>
    /\ HasNL(export_obj.commit.commit_message)

\* C17: without an author the commit block has no 'author' line and exactly
\* one 'committer' line; with an author the 'author' line comes immediately
\* before the 'committer' line.
C17_AuthorLine ==
    (Written /\ IsCommit) =>
        LET lines == SplitLines(sink)
            start == BlockStart(lines)
            data == DataLine(lines)
            authors == {i \in start .. (data - 1) : StartsWith(lines[i], B_author)}
            committers == {i \in start .. (data - 1) : StartsWith(lines[i], B_committer)}
        IN  /\ committers = {data - 1}
            /\ IF export_obj.commit.author.some
               THEN authors = {data - 2}
               ELSE authors = {}
            /\ data = start + 4 + Cardinality(authors)

\* A commit without author, under a reset, was written.
C17_Witness ==
    /\ Written
    /\ IsCommit
    /\ ~export_obj.commit.author.some
    /\ export_obj.commit.committer.name.some
    /\ export_obj.has_reset.some

\* C18: the number after 'data ' in a commit block is the byte length of
\* the message that follows it, whatever the object's data_size says.
C18_CommitDataLength ==
    (Written /\ IsCommit) =>
        LET lines == SplitLines(sink)
            data == DataLine(lines)
            token == Drop(lines[data], Len(B_data))
            from == BytesOfLines(lines, data)
            msg == export_obj.commit.commit_message
        IN  /\ IsNumber(token)
            /\ ParseNat(token) = Len(msg)
            /\ SubSeq(sink, from + 1, from + ParseNat(token)) = msg
            /\ sink[from + ParseNat(token) + 1] = NL

\* A 12-byte message written for an object whose data_size says 3.
C18_Witness ==
    /\ Written
    /\ IsCommit
    /\ Len(export_obj.commit.commit_message) = 12
    /\ export_obj.data_size = <<"3">>

\* The blob block of the output: the bytes from the 'blob' line on.
BlobBlock(lines) == Drop(sink, BytesOfLines(lines, BlockStart(lines) - 1))

\* The builder applied to one blob block of a stream: the mark, the oid and
\* the length token are read off their lines, the token is kept as written,
\* and exactly that many bytes after the 'data' line are the payload.
ParseBlob(block) ==
    LET lines == SplitLines(block)
        token == Drop(lines[4], Len(B_data))
        from == BytesOfLines(lines, 4)
    IN  [has_feature_done |-> FALSE, has_reset |-> NoneStr, has_reset_from |-> NoneStr,
         data_size |-> token, object_type |-> "Blob", commit |-> NoCommit,
         blob |-> [mark |-> ParseNat(Drop(lines[2], Len(B_mark))),
                   original_oid |-> Drop(lines[3], Len(B_original_oid)),
                   data |-> SubSeq(block, from + 1, from + ParseNat(token))]]

\* C19: a blob block is 'blob', 'mark :<mark>', 'original-oid <oid>',
\* 'data <data_size>' with the object's data_size as it stands, the payload
\* bytes and one newline, and nothing after; and when data_size is the
\* payload's length, building the block again and writing the result gives
\* the same bytes.
C19_BlobVerbatimLength ==
    (Written /\ IsBlob) =>
        LET lines == SplitLines(sink)
            start == BlockStart(lines)
            blob == export_obj.blob
            from == BytesOfLines(lines, start + 3)
        IN  /\ lines[start] = <<"b", "l", "o", "b">>
            /\ StartsWith(lines[start + 1], B_mark)
            /\ ParseNat(Drop(lines[start + 1], Len(B_mark))) = blob.mark
            /\ lines[start + 2] = B_original_oid \o blob.original_oid
            /\ lines[start + 3] = B_data \o export_obj.data_size
            /\ Drop(sink, from) = blob.data \o <<NL>>
            /\ ParseNat(export_obj.data_size) = Len(blob.data)
                   => write_to_stream(ParseBlob(BlobBlock(lines))) = BlobBlock(lines)

\* A blob with the token '03' and a 3-byte payload holding a newline was
\* written, and building its block again gives the same blob.
C19_Witness ==
    /\ Written
    /\ IsBlob
    /\ export_obj.data_size = <<"0", "3">>
    /\ Len(export_obj.blob.data) = 3
    /\ HasNL(export_obj.blob.data)
    /\ ParseBlob(BlobBlock(SplitLines(sink))).blob = export_obj.blob
    /\ ParseBlob(BlobBlock(SplitLines(sink))).data_size = export_obj.data_size

\* The line of one file operation, by keyword.
FileOpLine(fileop) ==
    CASE fileop.op = "FileModify" ->
             <<"M", " ">> \o fileop.a \o <<" ">> \o fileop.b \o <<" ">> \o fileop.c
      [] fileop.op = "FileDelete" -> <<"D", " ">> \o fileop.a
      [] fileop.op = "FileCopy" -> <<"C", " ">> \o fileop.a \o <<" ">> \o fileop.b
      [] fileop.op = "FileRename" -> <<"R", " ">> \o fileop.a \o <<" ">> \o fileop.b
      [] fileop.op = "FileDeleteAll" -> <<"d", "e", "l", "e", "t", "e", "a", "l", "l">>
      [] fileop.op = "NoteModify" -> <<"N", " ">> \o fileop.a \o <<" ">> \o fileop.b

\* Lines of the reset block: none without a reset target, else 'reset',
\* the optional 'from' and the blank line.
ResetLines ==
    IF ~export_obj.has_reset.some THEN 0
    ELSE IF export_obj.has_reset_from.some THEN 3 ELSE 2

\* Lines that open a block.
BlockStarts(lines) ==
    {i \in 1 .. Len(lines) : StartsWith(lines[i], B_commit) \/ lines[i] = <<"b", "l", "o", "b">>}

\* The layout of a commit block that starts at line 'start'.
CommitBlockLayout(lines, start) ==
    LET c == export_obj.commit
        a == IF c.author.some THEN 1 ELSE 0
        data == start + 4 + a
        parents == data + MessageLines + 1
        ops == parents + Len(c.merges)
    IN  /\ lines[start] = B_commit \o c.commit_ref
        /\ StartsWith(lines[start + 1], B_mark)
        /\ ParseNat(Drop(lines[start + 1], Len(B_mark))) = c.mark
        /\ lines[start + 2] = B_original_oid \o c.original_oid
        /\ c.author.some => StartsWith(lines[start + 3], B_author)
        /\ StartsWith(lines[start + 3 + a], B_committer)
        /\ StartsWith(lines[data], B_data)
        /\ SubSeq(sink, BytesOfLines(lines, data) + 1,
                  BytesOfLines(lines, data) + Len(c.commit_message)) = c.commit_message
        /\ \A i \in 1 .. Len(c.merges) : IsParentLine(lines[parents + i - 1])
        /\ \A i \in 1 .. Len(c.fileops) : lines[ops + i - 1] = FileOpLine(c.fileops[i])
        /\ Len(lines) = ops + Len(c.fileops)
        /\ lines[Len(lines)] = <<>>

\* C20: the output is the 'feature done' line if has_feature_done, the
\* reset block, then exactly one commit or blob block; a commit block is
\* ref, mark, oid, optional author, committer, data header, message, parent
\* lines and the file operations in stored order, one line each in its
\* keyword layout, closed by a blank line.
C20_ObjectLayout ==
    Written =>
        LET lines == SplitLines(sink)
            start == FeatureLines + ResetLines + 1
        IN  /\ export_obj.has_feature_done => lines[1] = <<"f", "e", "a", "t", "u", "r", "e", " ", "d", "o", "n", "e">>
            /\ BlockStarts(lines) = {start}
            /\ sink[Len(sink)] = NL
            /\ IsCommit => CommitBlockLayout(lines, start)
            /\ IsBlob => lines[start] = <<"b", "l", "o", "b">>

\* One person line read back: after the keyword, the bytes up to the first
\* '<' are the name and one space, or nothing without a name; then the
\* email, '> ' and the time string up to the end of the line.
PersonLineIs(line, keyword, person) ==
    LET rest == Drop(line, Len(keyword))
        open == Least({i \in 1 .. Len(rest) : rest[i] = "<"})
        close == Least({i \in 1 .. Len(rest) : rest[i] = ">"})
    IN  /\ StartsWith(line, keyword)
        /\ \E i \in 1 .. Len(rest) : rest[i] = "<"
        /\ SubSeq(rest, 1, open - 1) =
               (IF person.name.some THEN person.name.val \o <<" ">> ELSE <<>>)
        /\ ~person.name.some => rest[1] = "<"
        /\ SubSeq(rest, open + 1, close - 1) = person.email
        /\ SubSeq(rest, close, close + 1) = <<">", " ">>
        /\ Drop(rest, close + 1) = person.timestr

\* C21: the committer line, and the author line when there is one, is the
\* keyword 'committer ' or 'author ', the name and one space only when a
\* name is present, '<' email '> ' and the time string; without a name the
\* '<' follows the keyword directly.
C21_PersonLine ==
    (Written /\ IsCommit) =>
        LET lines == SplitLines(sink)
            data == DataLine(lines)
            c == export_obj.commit
        IN  /\ PersonLineIs(lines[data - 1], <<"c", "o", "m", "m", "i", "t", "t", "e", "r", " ">>, c.committer)
            /\ c.author.some =>
                   PersonLineIs(lines[data - 2], <<"a", "u", "t", "h", "o", "r", " ">>, c.author.val)

\* A commit with a nameless author and a named committer was written.
C21_Witness ==
    /\ Written
    /\ IsCommit
    /\ export_obj.commit.author.some
    /\ ~export_obj.commit.author.val.name.some
    /\ export_obj.commit.committer.name.some

DryRun == cmd.dry_run

\* The helpers that take dry_run, the die! wrappers aside.
DryRunHelpers ==
    {"perform_gitfilter_res", "checkout_output_branch", "rebase",
     "make_and_checkout_output_branch_res", "make_and_checkout_orphan_branch_res",
     "populate_empty_branch_with_remote_commits_res"}

\* C22: with dry_run set every helper call returns success after only
\* printing, and neither the filter nor any git command has been run.
C22_DryRunChangesNothing ==
    DryRun =>
        \A i \in 1 .. Len(helper_res) :
            helper_res[i].helper \in DryRunHelpers =>
                /\ helper_res[i].effects = 0
                /\ helper_res[i].res = Ok
                /\ helper_res[i].lines >= 1

\* C22 as amended: with dry_run set nothing is run, and a helper returns
\* success after printing exactly when the branch, ref or remote it works on
\* was passed; rebase without a ref also prints and returns success, and the
\* other helpers fail without it (an error or a panic), printing nothing.
C22_DryRunChangesNothingGivenArgs ==
    DryRun =>
        /\ (\A i \in 1 .. Len(helper_res) : helper_res[i].helper \in DryRunHelpers)
               => git_effects = <<>>
        /\ \A i \in 1 .. Len(helper_res) :
              helper_res[i].helper \in DryRunHelpers =>
                  /\ helper_res[i].effects = 0
                  /\ IF helper_res[i].given \/ helper_res[i].helper = "rebase"
                     THEN helper_res[i].res = Ok /\ helper_res[i].lines >= 1
                     ELSE helper_res[i].res # Ok /\ helper_res[i].lines = 0

\* Under dry_run the filter and then a checkout were asked for and both
\* returned.
C22_Witness ==
    /\ DryRun
    /\ Len(helper_res) = 2
    /\ helper_res[1].helper = "perform_gitfilter_res"
    /\ helper_res[2].helper = "checkout_output_branch"
    /\ helper_res[2].res = Ok
    /\ Len(printed) = 2
    /\ git_effects = <<>>

\* C30: no split subcommand reaches its run function with both rebase and
\* topbase set, and a bare -r or -t has become a value by then.
C30_NeverBothRebaseAndTopbase ==
    ran \in RunFunctions =>
        /\ ~(cmd.rebase.some /\ cmd.topbase.some)
        /\ cmd.rebase_flag => cmd.rebase.some
        /\ cmd.topbase_flag => cmd.topbase.some

\* Worker w finishes the record it holds in this step.
Finishes(w) == worker[w] = "build" /\ worker'[w] # "build"

\* C23: a worker that finishes a record either appends its result, Ok or
\* ParseError, under the record's own index to the outbound queue and goes
\* back to its inbound queue, or finds the outbound receiver gone and exits;
\* and a worker exits only that way or when its inbound queue is closed and
\* empty.
C23_WorkerForwardsEveryResult ==
    [][\A w \in Workers :
          /\ Finishes(w) =>
                IF rx_alive
                THEN /\ rx' = Append(rx, [index |-> held[w].index,
                                          parsed |-> parse_into_structured_object(held[w].raw)])
                     /\ worker'[w] = "recv"
                ELSE worker'[w] = "exit" /\ rx' = rx
          /\ (worker[w] # "exit" /\ worker'[w] = "exit") =>
                \/ worker[w] = "build" /\ ~rx_alive
                \/ worker[w] = "recv" /\ parse_rx[w] = <<>> /\ reader # "run"]_vars

\* The outbound queue holds a ParseError and, behind it, a later result of
\* the same worker.
C23_Witness ==
    /\ n_parsing_threads >= 1
    /\ \E i, j \in 1 .. Len(rx) :
          /\ i < j
          /\ ~rx[i].parsed.ok
          /\ rx[j].parsed.ok
          /\ rx[i].index < rx[j].index
          /\ rx[i].index = stream[rx[i].index + 1].mark - 1
          /\ thread_index(rx[i].index) = thread_index(rx[j].index)

\* The calling thread is waiting on the outbound queue (or has just seen it
\* closed).
MainWaits == main \in {"loop", "join"}

\* C24: whenever the calling thread waits on the outbound queue, the
\* indices in the heap are distinct and all greater than expected, and
\* expected is the number of callback invocations so far.
C24_ReassemblyInvariant ==
    MainWaits =>
        /\ \A i, j \in 1 .. Len(wait_heap) : i # j => wait_heap[i].index # wait_heap[j].index
        /\ \A i \in 1 .. Len(wait_heap) : wait_heap[i].index > expected
        /\ expected = Len(delivered)

\* Records 1 and 2 wait in the heap and record 0 is next in the outbound
\* queue.
C24_Witness ==
    /\ main = "loop"
    /\ Len(stream) = 3
    /\ Len(wait_heap) = 2
    /\ expected = 0
    /\ rx # <<>>
    /\ Head(rx).index = 0

\* C25: the outcome is a function of the stream, the thread count and the
\* callback: whatever the scheduling, the driver returns having made the
\* callback invocations, and with the result, of the run that takes the
\* records one by one in stream order, so that a failing build is reported
\* for the lowest failing index after every earlier record was delivered.
C25_OutcomeIndependentOfScheduling ==
    (Returned /\ n_parsing_threads >= 1) =>
        /\ delivered = Sequential.delivered
        /\ result = Sequential.result

\* C26: after an early return with a parse or callback error the outbound
\* receiver is gone; a worker that then finishes a record exits instead of
\* sending; the reader stops at its first dispatch to an exited worker; and
\* in the end the reader has stopped and every worker has exited.
C26_NoThreadLeftBlocked ==
    /\ [](Aborted => ~rx_alive)
    /\ [][\A w \in Workers :
             (Aborted /\ Finishes(w)) => (worker'[w] = "exit" /\ rx' = rx)]_vars
    /\ [][(n_parsing_threads >= 1 /\ counter' = counter + 1
              /\ Gone(thread_index(counter))) =>
             (reader' = "done" /\ filter_res' = Err("send", counter)
                 /\ parse_rx' = parse_rx)]_vars
    /\ Aborted ~> (reader # "run" /\ AllWorkersExited)

\* After a parse error with two workers, both have exited, one of them on a
\* failed send, and the reader was stopped by a dispatch to that worker.
C26_Witness ==
    /\ Aborted
    /\ result.err = "parse"
    /\ n_parsing_threads = 2
    /\ AllWorkersExited
    /\ reader = "done"
    /\ filter_res.err = "send"

ZeroThreads == thread_arg = Some(0)

\* C27: with thread_count = Some(0) there is no worker and the callback is
\* never invoked; on a stream with records the driver returns an error, and
\* it returns Ok only on an empty stream.
C27_ZeroThreads ==
    ZeroThreads =>
        /\ Workers = {}
        /\ delivered = <<>>
        /\ (Returned /\ stream # <<>>) => result.tag = "Err"
        /\ (Returned /\ result = Ok) => stream = <<>>
        /\ (Returned /\ stream = <<>> /\ ~tokenizer_fails) => result = Ok

\* Some(0) on a stream with records: the reader panicked on its first
\* dispatch and the driver returned the join failure.
C27_Witness ==
    /\ ZeroThreads
    /\ stream # <<>>
    /\ reader = "panic"
    /\ counter = 0
    /\ Returned
    /\ result = Err("join", 0)

OneThread == thread_arg = Some(1)

\* C28: with thread_count = 1 every pair the calling thread receives
\* carries the expected index, so nothing is ever pushed on the heap and
\* every callback invocation is made from the receive branch.
C28_OneThreadNoReordering ==
    OneThread =>
        /\ wait_heap = <<>>
        /\ cb_site # "drain"
        /\ \A i \in 1 .. Len(rx) : rx[i].index = expected + i - 1
        /\ (main = "loop" /\ rx # <<>>) => Head(rx).index = expected

\* One worker: two records were delivered and the third is in the outbound
\* queue, about to be received.
C28_Witness ==
    /\ OneThread
    /\ Len(delivered) = 2
    /\ main = "loop"
    /\ rx # <<>>
    /\ Head(rx).index = 2

\* The worker whose clone of tx sent the result with this index.
OwnerOf(index) == index % n_parsing_threads

\* The indices of a queue grow strictly from its head to its end.
Increasing(q) == \A i, j \in 1 .. Len(q) : i < j => q[i].index < q[j].index

\* The results of worker w in the outbound queue, in queue order.
SentBy(w) == SelectSeq(rx, LAMBDA r : OwnerOf(r.index) = w)

\* C29: every pair in worker w's inbound queue and every result worker w
\* sends has index = w modulo n_parsing_threads; a worker takes the pairs of
\* its queue and sends their results in strictly increasing index order.
C29_WorkerOwnsItsResidueClass ==
    /\ [](\A w \in Workers :
            /\ \A j \in 1 .. Len(parse_rx[w]) : OwnerOf(parse_rx[w][j].index) = w
            /\ Increasing(parse_rx[w])
            /\ Increasing(SentBy(w))
            /\ worker[w] = "build" =>
                /\ OwnerOf(held[w].index) = w
                /\ \A j \in 1 .. Len(parse_rx[w]) : held[w].index < parse_rx[w][j].index
                /\ \A j \in 1 .. Len(SentBy(w)) : SentBy(w)[j].index < held[w].index)
    /\ [][\A w \in Workers :
            (worker[w] = "recv" /\ worker'[w] = "build") =>
                (held'[w] = Head(parse_rx[w]) /\ parse_rx'[w] = Tail(parse_rx[w]))]_vars
    /\ [][\A w \in Workers :
            (worker[w] = "build" /\ worker'[w] = "recv") =>
                /\ Len(rx') = Len(rx) + 1
                /\ rx'[Len(rx')].index = held[w].index
                /\ OwnerOf(rx'[Len(rx')].index) = w]_vars

\* Two workers, three records: worker 1's result is in the outbound queue
\* ahead of worker 0's results, which are there in increasing order.
C29_Witness ==
    /\ n_parsing_threads = 2
    /\ Len(rx) = 3
    /\ rx[1].index = 1
    /\ rx[2].index = 0
    /\ rx[3].index = 2

\* The line with 0-based index i of the repo file is a break line.
BreakAt(i) == i >= 0 /\ i < Len(repo_lines) /\ line_is_break(repo_lines[i + 1])

\* The boundaries placed by the scan of the lines (the final boundary, once
\* added, is the last entry of segment_indices).
ScanBoundaries ==
    IF repo_pc = "scan" THEN 1 .. Len(segment_indices)
    ELSE 1 .. (Len(segment_indices) - 1)

\* C31: a boundary is placed at line i only if lines i and i-1 are both
\* break lines; a final boundary is added at the end of the file; a
\* segment of no lines is skipped, and the segments are the lines between
\* consecutive boundaries.
C31_BoundaryOnlyAtTwoBreaks ==
    /\ \A k \in ScanBoundaries :
          BreakAt(segment_indices[k]) /\ BreakAt(segment_indices[k] - 1)
    /\ repo_pc \in {"group", "done"} =>
          /\ segment_indices # <<>>
          /\ segment_indices[Len(segment_indices)] = Len(repo_lines)
    /\ repo_pc = "done" =>
          /\ current_index = Len(repo_lines)
          /\ Len(toml_segments) =
                Cardinality({k \in 1 .. Len(segment_indices) :
                    segment_indices[k] > (IF k = 1 THEN 0 ELSE segment_indices[k - 1])})

====
